---------------------------- MODULE Spec2Model ----------------------------
(***************************************************************************)
(* NTRIP client: the session engine (NtripClient::taskLoop), the caster    *)
(* transport (connectCaster / connectCasterWithVersion), the control       *)
(* surface (stop / reset / reconnect) and the RTCM frame parser            *)
(* (RtcmParser), modelled as a worker task interleaved with one observer   *)
(* task, a caster and a millisecond clock.                                 *)
(***************************************************************************)
EXTENDS Integers, Sequences, FiniteSets, TLC

(***************************************************************************)
(* Bounds of the model.  The configuration values are the fields of        *)
(* NtripClientConfig; the time unit is one clock tick.                     *)
(***************************************************************************)
MaxClock == 4
RaceClock == 1
StreamClock == 2
MaxTries == 2
RetryDelayMs == 1
ConnectTimeoutMs == 1
HealthTimeoutMs == 2
PassiveSampleMs == 1
RequiredValidFrames == 2
BufferSize == 4
MaxCtl == 2
MaxChunks == 2
MaxHeaders == 1
StatsFlushMs == 1
MaxCount == 1
MaxCalls == 2
StopWaitMs == 1
LifeClock == 2
MaxPrefix == 3
StatsClock == 1

(***************************************************************************)
(* Program constants.                                                      *)
(***************************************************************************)
PassiveScanBytes == 128
Preamble == 211
Crc24qPoly == 25578747

\* The configuration the session runs with.
SessionConfig ==
  [host |-> "caster", port |-> 2101, mount |-> "MOUNT",
   maxTries |-> MaxTries, retryDelayMs |-> RetryDelayMs,
   healthTimeoutMs |-> HealthTimeoutMs, passiveSampleMs |-> PassiveSampleMs,
   requiredValidFrames |-> RequiredValidFrames, bufferSize |-> BufferSize,
   connectTimeoutMs |-> ConnectTimeoutMs]

(***************************************************************************)
(* Bytes, bit operations and strings of bytes.                             *)
(***************************************************************************)
Min(a, b) == IF a < b THEN a ELSE b

\* Bit k (of weight p = 2^k) of a ^ b, for operands below 2^25.
XorBit(a, b, p) == ((((a \div p) % 2) + ((b \div p) % 2)) % 2) * p
Xor(a, b) ==
  (XorBit(a, b, 1) + XorBit(a, b, 2) + XorBit(a, b, 4) + XorBit(a, b, 8)) +
  (XorBit(a, b, 16) + XorBit(a, b, 32) + XorBit(a, b, 64) + XorBit(a, b, 128)) +
  (XorBit(a, b, 256) + XorBit(a, b, 512) + XorBit(a, b, 1024) + XorBit(a, b, 2048)) +
  (XorBit(a, b, 4096) + XorBit(a, b, 8192) + XorBit(a, b, 16384) + XorBit(a, b, 32768)) +
  (XorBit(a, b, 65536) + XorBit(a, b, 131072) + XorBit(a, b, 262144) + XorBit(a, b, 524288)) +
  (XorBit(a, b, 1048576) + XorBit(a, b, 2097152) + XorBit(a, b, 4194304) + XorBit(a, b, 8388608)) +
  (XorBit(a, b, 16777216))

Take(s, n) == SubSeq(s, 1, Min(n, Len(s)))
Drop(s, n) == SubSeq(s, Min(n, Len(s)) + 1, Len(s))

CR == 13
LF == 10
\* isspace() of the C locale: space, \t, \n, \v, \f, \r
IsSpace(c) == c \in {32, 9, 10, 11, 12, 13}

RECURSIVE TrimLeft(_)
TrimLeft(s) == IF s # <<>> /\ IsSpace(Head(s)) THEN TrimLeft(Tail(s)) ELSE s
RECURSIVE TrimRight(_)
TrimRight(s) ==
  IF s # <<>> /\ IsSpace(s[Len(s)]) THEN TrimRight(SubSeq(s, 1, Len(s) - 1)) ELSE s
\* String::trim
Trim(s) == TrimRight(TrimLeft(s))

\* String::startsWith
StartsWith(s, p) == Len(s) >= Len(p) /\ SubSeq(s, 1, Len(p)) = p
\* String::indexOf(p) >= 0
Contains(s, p) ==
  \E i \in 1..(Len(s) - Len(p) + 1) : SubSeq(s, i, i + Len(p) - 1) = p

\* Position of the first terminator in s, 0 when there is none.
FirstIndex(s, t) ==
  IF \E i \in 1..Len(s) : s[i] = t
  THEN CHOOSE i \in 1..Len(s) : s[i] = t /\ \A j \in 1..(i - 1) : s[j] # t
  ELSE 0

\* Stream::readStringUntil(t): the characters before the first t (t itself
\* is consumed and dropped); with no t in the buffer the read runs into its
\* timeout and returns everything that was there.
ReadStringUntil(buf, t) ==
  LET i == FirstIndex(buf, t) IN
  IF i = 0 THEN [line |-> buf, rest |-> <<>>]
  ELSE [line |-> SubSeq(buf, 1, i - 1), rest |-> Drop(buf, i)]

AsciiICY200 == <<73, 67, 89, 32, 50, 48, 48>>
AsciiHTTP11_200 == <<72, 84, 84, 80, 47, 49, 46, 49, 32, 50, 48, 48>>
AsciiHTTP10_200 == <<72, 84, 84, 80, 47, 49, 46, 48, 32, 50, 48, 48>>
Ascii401 == <<52, 48, 49>>
Ascii404 == <<52, 48, 52>>

(***************************************************************************)
(* RtcmParser.                                                             *)
(***************************************************************************)
\* The eight shift steps of crc24q.  The bits above bit 23 never reach the
\* result (crc & 0xFFFFFF), so each step is kept to 24 bits.  A step is
\* evaluated before the next one is entered (it is never negative).
RECURSIVE Crc24qBits(_, _)
Crc24qBits(crc, i) ==
  IF i = 0 THEN crc
  ELSE LET shifted == (IF (crc \div 8388608) % 2 = 1
                       THEN Xor(crc * 2, Crc24qPoly)
                       ELSE crc * 2) % 16777216
       IN IF shifted >= 0 THEN Crc24qBits(shifted, i - 1) ELSE 0

\* crc24q without the byte xored into the register.
crc24qWithoutByte(crc, byte) == Crc24qBits(crc, 8) % 16777216

\* RtcmParser::crc24q
crc24q(crc, byte) == Crc24qBits(Xor(crc, byte * 65536), 8) % 16777216

NoResult == [valid |-> FALSE, crcError |-> FALSE, messageType |-> 0, length |-> 0]

ParserInit ==
  [state |-> "SYNC", length |-> 0, index |-> 0, crc |-> 0,
   crcBuf |-> <<0, 0, 0>>, payloadBuf |-> [i \in 1..12 |-> 0]]

\* A reset() that leaves the accumulated CRC as it is.
ParserResetKeepingCrc(p) == [p EXCEPT !.state = "SYNC", !.length = 0, !.index = 0]

\* RtcmParser::reset
ParserReset(p) == [p EXCEPT !.state = "SYNC", !.length = 0, !.index = 0, !.crc = 0]

\* RtcmParser::extractMessageType
extractMessageType(p) ==
  IF p.length >= 2
  THEN ((p.payloadBuf[1] * 16) % 65536) + ((p.payloadBuf[2] \div 16) % 16)
  ELSE 0

\* RtcmParser::feed: the parser after byte b, and the result returned.
feed(p, b) ==
  CASE p.state = "SYNC" ->
         IF b = Preamble
         THEN [p |-> [p EXCEPT !.crc = crc24q(0, b), !.state = "LEN1"], r |-> NoResult]
         ELSE [p |-> p, r |-> NoResult]
    [] p.state = "LEN1" ->
         [p |-> [p EXCEPT !.length = (b % 4) * 256, !.crc = crc24q(p.crc, b),
                          !.state = "LEN2"],
          r |-> NoResult]
    [] p.state = "LEN2" ->
         \* length |= b : the low byte of length is still zero here
         [p |-> [p EXCEPT !.length = p.length + b, !.crc = crc24q(p.crc, b),
                          !.index = 0, !.state = "PAYLOAD"],
          r |-> NoResult]
    [] p.state = "PAYLOAD" ->
         LET buf == IF p.index < 12
                    THEN [p.payloadBuf EXCEPT ![p.index + 1] = b]
                    ELSE p.payloadBuf
             c == crc24q(p.crc, b)
         IN IF p.index + 1 >= p.length
            THEN [p |-> [p EXCEPT !.payloadBuf = buf, !.crc = c, !.state = "CRC",
                                  !.index = 0],
                  r |-> NoResult]
            ELSE [p |-> [p EXCEPT !.payloadBuf = buf, !.crc = c,
                                  !.index = p.index + 1],
                  r |-> NoResult]
    [] p.state = "CRC" ->
         LET cb == [p.crcBuf EXCEPT ![p.index + 1] = b] IN
         IF p.index + 1 >= 3
         THEN LET recv == (cb[1] * 65536) + (cb[2] * 256) + cb[3]
                  q == [p EXCEPT !.crcBuf = cb]
                  ok == (p.crc = recv)
              IN [p |-> ParserReset(q),
                  r |-> [valid |-> ok, crcError |-> ~ok,
                         messageType |-> IF ok THEN extractMessageType(q) ELSE 0,
                         length |-> p.length]]
         ELSE [p |-> [p EXCEPT !.crcBuf = cb, !.index = p.index + 1], r |-> NoResult]

(***************************************************************************)
(* The caster's side of the wire: response lines and RTCM frames.          *)
(***************************************************************************)
CRLF == <<CR, LF>>
\* "ICY 200 OK", "HTTP/1.1 200 OK", "HTTP/1.1 401 Unauthorized",
\* "HTTP/1.1 404 Not Found", "HTTP/1.1 400 Bad Request"
StatusLine(kind) ==
  CASE kind = "ICY200" -> AsciiICY200 \o <<32, 79, 75>>
    [] kind = "HTTP200" -> AsciiHTTP11_200 \o <<32, 79, 75>>
    [] kind = "401" -> <<72, 84, 84, 80, 47, 49, 46, 49, 32>> \o Ascii401
                         \o <<32, 85, 110, 97, 117, 116, 104, 111, 114, 105, 122, 101, 100>>
    [] kind = "404" -> <<72, 84, 84, 80, 47, 49, 46, 49, 32>> \o Ascii404
                         \o <<32, 78, 111, 116, 32, 70, 111, 117, 110, 100>>
    [] kind = "400" -> <<72, 84, 84, 80, 47, 49, 46, 49, 32, 52, 48, 48>>
                         \o <<32, 66, 97, 100, 32, 82, 101, 113, 117, 101, 115, 116>>
StatusKinds == {"ICY200", "HTTP200", "401", "404", "400"}
\* "S:1", a header line of the response
HeaderLine == <<83, 58, 49>>

\* The CRC-24Q of a sequence of bytes, byte by byte as feed accumulates it.
RECURSIVE CrcOf(_, _)
CrcOf(bytes, crc) ==
  IF bytes = <<>> THEN crc
  ELSE LET next == crc24q(crc, Head(bytes))
       IN IF next >= 0 THEN CrcOf(Tail(bytes), next) ELSE 0

\* A well-formed frame: preamble, 10-bit length, payload, CRC-24Q.
Frame(payload) ==
  LET body == <<Preamble, (Len(payload) \div 256) % 4, Len(payload) % 256>> \o payload
      c == CrcOf(body, 0)
  IN body \o <<c \div 65536, (c \div 256) % 256, c % 256>>
\* Message type in the top 12 bits of a two-byte payload.
TypedPayload(t) == <<t \div 16, (t % 16) * 16>>
GoodFrame == Frame(TypedPayload(1005))
\* The same frame with its last CRC byte altered.
BadFrame == [GoodFrame EXCEPT ![Len(GoodFrame)] = (GoodFrame[Len(GoodFrame)] + 1) % 256]
Chunks == {GoodFrame, BadFrame}

(***************************************************************************)
(* State.                                                                  *)
(***************************************************************************)
VARIABLES
  _state,       \* NtripClient::_state
  _healthy,     \* NtripClient::_healthy
  _running,     \* NtripClient::_running
  lastHealth,   \* NtripClient::lastHealth
  lastAttempt,  \* NtripClient::lastAttempt
  failures,     \* NtripClient::failures (uint8_t)
  _stats,       \* NtripClient::_stats, guarded by statsMutex
  statsMutex,   \* TRUE once begin() has created the mutex
  client,       \* the WiFiClient: [conn, rx]
  sink,         \* the bytes written to gnssOutput
  pc,           \* the worker's position in taskLoop ("none": no task)
  w,            \* taskLoop's locals
  opc,          \* the observer's position inside a control call
  ctl,          \* control calls the observer may still make
  now,          \* millis()
  net,          \* the caster's side of the connection
  h,            \* history of the run, read by the properties only
  config,       \* NtripClient::config, the stored configuration
  gnssOutput,   \* NtripClient::gnssOutput ("null": none)
  _taskHandle,  \* NtripClient::_taskHandle ("null": no task)
  mutexOwner,   \* the task holding statsMutex ("none": free)
  reader,       \* a getStats() call of a reader task: [pc, snapshot]
  sketch        \* the setup/loop context: its position in stopTask(), the
                \* start time stopTask() took, the lifecycle calls it may
                \* still make, and whether it has started the task before

vars == <<_state, _healthy, _running, lastHealth, lastAttempt, failures, _stats,
          statsMutex, client, sink, pc, w, opc, ctl, now, net, h,
          config, gnssOutput, _taskHandle, mutexOwner, reader, sketch>>

NoMessage == [text |-> "", arg |-> 0]
\* NtripStats()
StatsInit ==
  [totalFrames |-> 0, crcErrors |-> 0, bytesReceived |-> 0, reconnects |-> 0,
   totalUptime |-> 0, lastMessageType |-> 0, lastFrameTime |-> 0,
   connectionStart |-> 0, lastError |-> "NONE", lastErrorMessage |-> NoMessage,
   protocolVersion |-> 0]

\* The locals of taskLoop and of the connectCaster call it makes.
LocalsInit ==
  [parser |-> ParserInit, phase |-> "VALIDATION", validFrames |-> 0,
   lastSampleTime |-> 0, localBytes |-> 0, localFrames |-> 0,
   localCrcErrors |-> 0, localLastMsgType |-> 0, localLastFrameTime |-> 0,
   lastStatsFlush |-> 0, buffer |-> <<>>, useRev2 |-> TRUE, err |-> "NONE",
   errMsg |-> NoMessage, t0 |-> 0, tmp |-> 0, dret |-> "loop"]

ClosedSocket == [conn |-> FALSE, rx |-> <<>>]

(***************************************************************************)
(* What the environment may do in one run: the control calls the observer  *)
(* makes, the frames the caster streams, the header lines it sends, how    *)
(* far the clock runs, and how the caster treats a connection ("refuse":   *)
(* the TCP connect fails; "close": it may close an accepted connection;    *)
(* else the status line it answers with).                                  *)
(***************************************************************************)
Budget(nCtl, nChunks, nHdrs, clock, kinds) ==
  [ctl |-> nCtl, chunks |-> nChunks, maxHdrs |-> nHdrs, maxClock |-> clock,
   kinds |-> kinds, calls |-> 0]
Budgets ==
  { \* retries against a caster that is silent, refuses or rejects
    Budget(0, 0, 0, MaxClock, {"refuse", "close", "ICY200", "401", "400"}),
    \* control calls racing the handshake
    Budget(MaxCtl, 0, 0, RaceClock, {"close", "ICY200", "401"}),
    \* a control call racing the stream
    Budget(1, MaxChunks, 0, RaceClock, {"close", "ICY200"}),
    \* a stream that outlasts validation
    Budget(0, MaxChunks + 1, 0, StreamClock, {"close", "ICY200"}),
    \* response headers ahead of the stream
    Budget(0, 1, MaxHeaders, StreamClock, {"close", "ICY200"}),
    \* a stream that goes silent with the socket left open
    Budget(0, MaxChunks, 0, MaxClock, {"ICY200"}),
    \* a stream that outlasts validation long enough to be sampled
    Budget(0, MaxChunks + 1, 0, StreamClock + 1, {"ICY200"}),
    \* a sketch that stops the task, calls begin() again and restarts it
    [Budget(0, 1, 0, LifeClock, {"ICY200", "401"}) EXCEPT !.calls = MaxCalls],
    \* a sketch that stops and restarts a task that has locked itself out
    [Budget(0, 0, 0, LifeClock + 1, {"401"}) EXCEPT !.calls = MaxCalls] }

\* The runs with one call at most, a control call or a lifecycle call.
LiveBudgets ==
  { Budget(0, 0, 0, MaxClock, {"refuse", "close", "ICY200", "401", "400"}),
    Budget(1, 0, 0, RaceClock, {"ICY200", "401"}),
    Budget(0, 1, MaxHeaders, StreamClock, {"close", "ICY200"}),
    Budget(0, MaxChunks, 0, MaxClock, {"ICY200"}),
    [Budget(0, 1, 0, LifeClock, {"ICY200", "401"}) EXCEPT !.calls = 1] }

NetIdle(b) ==
  [stage |-> "none", hdrs |-> 0, hdrsSent |-> 0, chunks |-> b.chunks,
   maxHdrs |-> b.maxHdrs,
   maxClock |-> b.maxClock, kinds |-> b.kinds]

\* NtripClientConfig as default-constructed.
ConstructedConfig ==
  [host |-> "", port |-> 2101, mount |-> "",
   maxTries |-> 5, retryDelayMs |-> 30000, healthTimeoutMs |-> 60000,
   passiveSampleMs |-> 5000, requiredValidFrames |-> 3, bufferSize |-> 1024,
   connectTimeoutMs |-> 5000]

\* What the worker found when it left its loop; none before that and once
\* failures is written again.
ExitNone == [left |-> FALSE, state |-> "", failures |-> 0, lastError |-> ""]

HistoryInit ==
  [attempts |-> 0, okSeen |-> FALSE, only401 |-> TRUE, stopped |-> FALSE,
   connFrames |-> 0, readLog |-> <<>>, drainTimedOut |-> FALSE,
   afterReset |-> FALSE, afterReconnect |-> FALSE, controlled |-> FALSE,
   readPass |-> FALSE, atTake |-> StatsInit, startTask |-> "", stopTask |-> "",
   tasks |-> 0, rev2Failed |-> FALSE, offset |-> 0, fed |-> 0, results |-> <<>>,
   altered |-> 0, stream |-> <<>>, split |-> FALSE, promotedAt |-> 0, tries |-> <<>>,
   stamped |-> 0, reconnected |-> FALSE, cleared |-> TRUE,
   entered |-> FALSE, validationEnd |-> 0, wiped |-> FALSE, delivered |-> 0, sampleFailed |-> FALSE, payloadLen |-> 0,
   failedTry |-> FALSE, stopCalled |-> FALSE, tornDown |-> 0,
   exit |-> ExitNone, parserResets |-> 0,
   begin |-> [cfg |-> ConstructedConfig, gnss |-> "null", ok |-> FALSE, n |-> 0]]

\* The sketch before its first call.
SketchIdle(n) == [pc |-> "idle", start |-> 0, calls |-> n, started |-> FALSE]

\* No getStats() call is in progress.
ReaderIdle == [pc |-> "idle", k |-> 0, snapshot |-> StatsInit]

\* The object as constructed (member initialisers of NtripClient), in one of
\* the environments bs.
InitIn(bs) ==
  /\ _state = "DISCONNECTED" /\ _healthy = FALSE /\ _running = FALSE
  /\ lastHealth = 0 /\ lastAttempt = 0 /\ failures = 0
  /\ _stats = StatsInit /\ statsMutex = FALSE
  /\ client = ClosedSocket /\ sink = <<>>
  /\ pc = "none" /\ w = LocalsInit
  /\ opc = "idle" /\ now = 0 /\ h = HistoryInit
  /\ config = ConstructedConfig /\ gnssOutput = "null" /\ _taskHandle = "null"
  /\ mutexOwner = "none" /\ reader = ReaderIdle
  /\ \E b \in bs : ctl = b.ctl /\ net = NetIdle(b) /\ sketch = SketchIdle(b.calls)

Init == InitIn(Budgets)

(***************************************************************************)
(* Lifecycle.                                                              *)
(***************************************************************************)
\* NtripClient::validateConfig
validateConfig(cfg) ==
  /\ cfg.host # "" /\ cfg.mount # "" /\ cfg.port # 0 /\ cfg.bufferSize # 0
  /\ cfg.connectTimeoutMs # 0 /\ cfg.maxTries # 0 /\ cfg.healthTimeoutMs # 0

\* A begin() that stores its arguments before it validates them.
BeginWithStoring(cfg, gnss) ==
  /\ config' = cfg /\ gnssOutput' = gnss
  /\ IF validateConfig(cfg)
     THEN /\ failures' = 0 /\ _healthy' = FALSE /\ _state' = "DISCONNECTED"
          /\ _running' = FALSE /\ statsMutex' = TRUE /\ _stats' = StatsInit
     ELSE UNCHANGED <<failures, _healthy, _state, _running, statsMutex, _stats>>
  /\ h' = [h EXCEPT !.begin = [cfg |-> cfg, gnss |-> gnss, ok |-> validateConfig(cfg),
                                n |-> h.begin.n + 1],
                     !.exit = IF validateConfig(cfg) THEN ExitNone ELSE @]
  /\ UNCHANGED <<lastHealth, lastAttempt, client, sink, pc, w, opc, ctl, now, net,
                 _taskHandle, mutexOwner, reader>>

\* NtripClient::begin(cfg, gnss): nothing is written when validateConfig
\* rejects cfg; the mutex is created by the first call that gets that far.
BeginWith(cfg, gnss) ==
  /\ IF validateConfig(cfg)
     THEN /\ config' = cfg /\ gnssOutput' = gnss
          /\ failures' = 0 /\ _healthy' = FALSE /\ _state' = "DISCONNECTED"
          /\ _running' = FALSE /\ statsMutex' = TRUE /\ _stats' = StatsInit
     ELSE UNCHANGED <<config, gnssOutput, failures, _healthy, _state, _running,
                      statsMutex, _stats>>
  /\ h' = [h EXCEPT !.begin = [cfg |-> cfg, gnss |-> gnss, ok |-> validateConfig(cfg),
                                n |-> h.begin.n + 1],
                     !.exit = IF validateConfig(cfg) THEN ExitNone ELSE @]
  /\ UNCHANGED <<lastHealth, lastAttempt, client, sink, pc, w, opc, ctl, now, net,
                 _taskHandle, mutexOwner, reader>>

\* The configurations the sketch passes to begin(): the one the session runs
\* with, and that one with a single field empty or zero.
ZeroedFields ==
  {"host", "mount", "port", "bufferSize", "connectTimeoutMs", "maxTries",
   "healthTimeoutMs", "requiredValidFrames"}
Zeroed(cfg, f) == [cfg EXCEPT ![f] = IF f \in {"host", "mount"} THEN "" ELSE 0]
Configs == {SessionConfig} \cup {Zeroed(SessionConfig, f) : f \in ZeroedFields}

\* The sketch makes a lifecycle call: its first begin() with the session's
\* configuration and its first startTask() are part of every run, any other
\* call is one of the calls the run allows.
Called(free) ==
  [sketch EXCEPT !.calls = IF free THEN @ ELSE @ - 1]

\* begin() as the sketch calls it; the contract forbids calling it while the
\* task runs.
Begin ==
  /\ sketch.pc = "idle" /\ _taskHandle = "null" /\ pc = "none" /\ opc = "idle"
  /\ \E cfg \in Configs :
       LET free == ~statsMutex /\ cfg = SessionConfig IN
       /\ free \/ sketch.calls > 0
       /\ sketch' = Called(free)
       /\ BeginWith(cfg, IF statsMutex THEN "usb" ELSE "serial")

\* A startTask() that does not look at the handle.
CanStartAgain(handle) == TRUE

\* if (_taskHandle != nullptr) return false;
CanStart(handle) == handle = "null"

\* NtripClient::startTask: refused while a task exists; else _running is set
\* and the task created, which then runs taskLoop from its start, unless
\* xTaskCreatePinnedToCore fails.
StartTask ==
  /\ sketch.pc = "idle" /\ statsMutex
  /\ sketch.started => sketch.calls > 0
  /\ \/ /\ ~CanStart(_taskHandle)
        /\ h' = [h EXCEPT !.startTask = "refused"]
        /\ UNCHANGED <<_running, _taskHandle, pc, w>>
     \/ /\ CanStart(_taskHandle)
        /\ _running' = TRUE /\ _taskHandle' = "task" /\ pc' = "loop" /\ w' = LocalsInit
        /\ h' = [h EXCEPT !.startTask = "spawned", !.tasks = @ + 1,
                          !.controlled = @ \/ sketch.started]
     \/ /\ CanStart(_taskHandle)
        /\ _running' = FALSE /\ h' = [h EXCEPT !.startTask = "failed"]
        /\ UNCHANGED <<_taskHandle, pc, w>>
  /\ sketch' = [Called(~sketch.started) EXCEPT !.started = TRUE]
  /\ UNCHANGED <<_state, _healthy, lastHealth, lastAttempt, failures, _stats,
                 statsMutex, client, sink, opc, ctl, now, net,
                 config, gnssOutput, mutexOwner, reader>>

\* NtripClient::stopTask up to its wait: false when there is no task, else
\* _running = false; start = millis().
StopTask ==
  /\ sketch.pc = "idle" /\ sketch.calls > 0 /\ statsMutex
  /\ IF _taskHandle = "null"
     THEN /\ sketch' = Called(FALSE)
          /\ h' = [h EXCEPT !.stopTask = "refused"]
          /\ UNCHANGED _running
     ELSE /\ _running' = FALSE
          /\ sketch' = [Called(FALSE) EXCEPT !.pc = "stopTask", !.start = now]
          /\ h' = [h EXCEPT !.stopTask = "waiting", !.controlled = TRUE]
  /\ UNCHANGED <<_state, _healthy, lastHealth, lastAttempt, failures, _stats,
                 statsMutex, client, sink, pc, w, opc, ctl, now, net,
                 config, gnssOutput, _taskHandle, mutexOwner, reader>>

\* The blocking calls of the worker: client.connect and the timed reads of
\* the handshake.  Only there does the worker spend time without testing
\* _running.
Blocked == pc \in {"tcp", "wait", "drain"}

\* A wait that is over as soon as it starts.
StopWaitOverAtOnce(t, start) == TRUE

\* millis() - start < 5000 no longer holds.
StopWaitOver(t, start) == t - start >= StopWaitMs

\* while (_taskHandle != nullptr && millis() - start < 5000) vTaskDelay(100);
\* then the task, if it is still there, is deleted where it stands: in the
\* blocking call that kept it from the loop test for the whole wait.
StopTaskWait ==
  /\ sketch.pc = "stopTask"
  /\ \/ /\ _taskHandle = "null"
        /\ h' = [h EXCEPT !.stopTask = "returned"]
        /\ UNCHANGED <<_taskHandle, pc, w>>
     \/ /\ _taskHandle # "null" /\ StopWaitOver(now, sketch.start) /\ Blocked
        /\ _taskHandle' = "null" /\ pc' = "none" /\ w' = LocalsInit
        /\ h' = [h EXCEPT !.stopTask = "forced", !.tasks = @ - 1, !.readPass = FALSE]
  /\ sketch' = [sketch EXCEPT !.pc = "idle", !.start = 0]
  /\ UNCHANGED <<_state, _healthy, _running, lastHealth, lastAttempt, failures,
                 _stats, statsMutex, client, sink, opc, ctl, now, net,
                 config, gnssOutput, mutexOwner, reader>>

\* NtripClient::isTaskRunning
isTaskRunning == _taskHandle # "null" /\ _running

(***************************************************************************)
(* Shared helpers of the worker and the control calls.                     *)
(***************************************************************************)
\* WiFiClient::connected
Connected(c) == c.conn
\* WiFiClient::stop: the socket is closed and what it had buffered is gone.
SocketStopped(n) == [n EXCEPT !.stage = "none", !.hdrsSent = 0]

\* A setError that also restarts the reconnect count.
SetErrorRestartingCount(st, code, msg) ==
  [st EXCEPT !.lastError = code, !.lastErrorMessage = msg, !.reconnects = 0]

\* A setError that stores the code and leaves the message as it was.
SetErrorCodeOnly(st, code, msg) == [st EXCEPT !.lastError = code]

\* NtripClient::setError, under statsMutex
SetError(st, code, msg) == [st EXCEPT !.lastError = code, !.lastErrorMessage = msg]

\* while (_running)
TaskLoopTop ==
  /\ pc = "loop" /\ _running
  /\ pc' = "hyg"
  /\ UNCHANGED <<_state, _healthy, _running, lastHealth, lastAttempt, failures,
                 _stats, statsMutex, client, sink, w, opc, ctl, now, net, h,
                 config, gnssOutput, _taskHandle, mutexOwner, reader, sketch>>

\* while (_running) found false: the loop is left.
TaskLoopExit ==
  /\ pc = "loop" /\ ~_running
  /\ pc' = "xflush"
  /\ h' = [h EXCEPT !.exit = [left |-> TRUE, state |-> _state, failures |-> failures,
                              lastError |-> _stats.lastError]]
  /\ UNCHANGED <<_state, _healthy, _running, lastHealth, lastAttempt, failures,
                 _stats, statsMutex, client, sink, w, opc, ctl, now, net,
                 config, gnssOutput, _taskHandle, mutexOwner, reader, sketch>>

\* The accumulators folded into the registry by the exit tail.
FlushedOnExit(st, l) ==
  [st EXCEPT !.bytesReceived = @ + l.localBytes,
             !.totalFrames = @ + l.localFrames,
             !.crcErrors = @ + l.localCrcErrors]

\* An exit tail that ends without disconnect().
AfterExitFlushTaskEnds == "xend"

\* delete[] buffer; disconnect();  the tail goes on into disconnect()
AfterExitFlush == "d1"

\* Flush remaining local stats; delete[] buffer; disconnect();
ExitFlush ==
  /\ pc = "xflush"
  /\ _stats' = FlushedOnExit(_stats, w)
  /\ w' = [w EXCEPT !.buffer = <<>>, !.dret = "xend"]
  /\ pc' = AfterExitFlush
  /\ UNCHANGED <<_state, _healthy, _running, lastHealth, lastAttempt, failures,
                 statsMutex, client, sink, opc, ctl, now, net, h,
                 config, gnssOutput, _taskHandle, mutexOwner, reader, sketch>>

\* _taskHandle = nullptr; vTaskDelete(nullptr);
ExitTask ==
  /\ pc = "xend"
  /\ _taskHandle' = "null" /\ pc' = "none" /\ w' = LocalsInit
  /\ h' = [h EXCEPT !.tasks = @ - 1, !.readPass = FALSE]
  /\ UNCHANGED <<_state, _healthy, _running, lastHealth, lastAttempt, failures,
                 _stats, statsMutex, client, sink, opc, ctl, now, net,
                 config, gnssOutput, mutexOwner, reader, sketch>>

\* if (_state != STREAMING && _state != CONNECTING)
HygieneTest ==
  /\ pc = "hyg"
  /\ pc' = IF _state \notin {"STREAMING", "CONNECTING"} THEN "hyg2" ELSE "disc"
  /\ UNCHANGED <<_state, _healthy, _running, lastHealth, lastAttempt, failures,
                 _stats, statsMutex, client, sink, w, opc, ctl, now, net, h,
                 config, gnssOutput, _taskHandle, mutexOwner, reader, sketch>>

\* if (client.connected()) client.stop();
HygieneClose ==
  /\ pc = "hyg2"
  /\ IF Connected(client)
     THEN client' = ClosedSocket /\ net' = SocketStopped(net) /\ pc' = "hyg3"
     ELSE UNCHANGED <<client, net>> /\ pc' = "disc"
  /\ UNCHANGED <<_state, _healthy, _running, lastHealth, lastAttempt, failures,
                 _stats, statsMutex, sink, w, opc, ctl, now, h,
                 config, gnssOutput, _taskHandle, mutexOwner, reader, sketch>>

\* _healthy = false;  (inside the hygiene block)
HygieneUnhealthy ==
  /\ pc = "hyg3"
  /\ _healthy' = FALSE /\ pc' = "disc"
  /\ UNCHANGED <<_state, _running, lastHealth, lastAttempt, failures, _stats,
                 statsMutex, client, sink, w, opc, ctl, now, net, h,
                 config, gnssOutput, _taskHandle, mutexOwner, reader, sketch>>

\* if (_state == DISCONNECTED)
DisconnectedTest ==
  /\ pc = "disc"
  /\ pc' = IF _state = "DISCONNECTED" THEN "retry" ELSE "conn"
  /\ UNCHANGED <<_state, _healthy, _running, lastHealth, lastAttempt, failures,
                 _stats, statsMutex, client, sink, w, opc, ctl, now, net, h,
                 config, gnssOutput, _taskHandle, mutexOwner, reader, sketch>>

\* millis() - lastAttempt < config.retryDelayMs
InRetryWindow(t, last) == t - last < config.retryDelayMs

\* the retry window: vTaskDelay(200); continue;  or fall through
RetryWindow ==
  /\ pc = "retry"
  /\ pc' = IF InRetryWindow(now, lastAttempt) THEN "loop" ELSE "lockchk"
  /\ h' = [h EXCEPT !.afterReconnect = FALSE]
  /\ UNCHANGED <<_state, _healthy, _running, lastHealth, lastAttempt, failures,
                 _stats, statsMutex, client, sink, w, opc, ctl, now, net,
                 config, gnssOutput, _taskHandle, mutexOwner, reader, sketch>>

\* The same test one failure early: failures + 1 >= config.maxTries
RetriesExhaustedEarly(f) == f + 1 >= config.maxTries

\* The same test off by one: failures > config.maxTries
RetriesExhaustedLate(f) == f > config.maxTries

\* failures >= config.maxTries
RetriesExhausted(f) == f >= config.maxTries

LockoutTest ==
  /\ pc = "lockchk"
  /\ pc' = IF RetriesExhausted(failures) THEN "lockErr" ELSE "setConn"
  /\ UNCHANGED <<_state, _healthy, _running, lastHealth, lastAttempt, failures,
                 _stats, statsMutex, client, sink, w, opc, ctl, now, net, h,
                 config, gnssOutput, _taskHandle, mutexOwner, reader, sketch>>

\* setError(MAX_RETRIES_EXCEEDED, "Failed " + failures + " times")
LockoutError ==
  /\ pc = "lockErr"
  /\ _stats' = SetError(_stats, "MAX_RETRIES_EXCEEDED",
                        [text |-> "Failed times", arg |-> failures])
  /\ pc' = "lockSet"
  /\ h' = [h EXCEPT !.wiped = FALSE]
  /\ UNCHANGED <<_state, _healthy, _running, lastHealth, lastAttempt, failures,
                 statsMutex, client, sink, w, opc, ctl, now, net,
                 config, gnssOutput, _taskHandle, mutexOwner, reader, sketch>>

\* _state = LOCKED_OUT; continue;
LockoutEnter ==
  /\ pc = "lockSet"
  /\ _state' = "LOCKED_OUT" /\ pc' = "loop"
  /\ UNCHANGED <<_healthy, _running, lastHealth, lastAttempt, failures, _stats,
                 statsMutex, client, sink, w, opc, ctl, now, net, h,
                 config, gnssOutput, _taskHandle, mutexOwner, reader, sketch>>

\* _state = CONNECTING;
EnterConnecting ==
  /\ pc = "setConn"
  /\ _state' = "CONNECTING" /\ pc' = "conn"
  /\ UNCHANGED <<_healthy, _running, lastHealth, lastAttempt, failures, _stats,
                 statsMutex, client, sink, w, opc, ctl, now, net, h,
                 config, gnssOutput, _taskHandle, mutexOwner, reader, sketch>>

\* if (_state == CONNECTING)
ConnectingTest ==
  /\ pc = "conn"
  /\ pc' = IF _state = "CONNECTING" THEN "stamp" ELSE "strm"
  /\ UNCHANGED <<_state, _healthy, _running, lastHealth, lastAttempt, failures,
                 _stats, statsMutex, client, sink, w, opc, ctl, now, net, h,
                 config, gnssOutput, _taskHandle, mutexOwner, reader, sketch>>

\* lastAttempt = millis(); connectCaster(config) is entered with Rev2 first
StampAttempt ==
  /\ pc = "stamp"
  /\ lastAttempt' = now /\ pc' = "tcp"
  /\ w' = [w EXCEPT !.useRev2 = TRUE, !.err = "NONE", !.errMsg = NoMessage]
  /\ h' = [h EXCEPT !.attempts = Min(h.attempts + 1, MaxTries + 1),
                    !.afterReset = FALSE, !.tries = <<>>,
                    !.stamped = now, !.reconnected = FALSE]
  /\ UNCHANGED <<_state, _healthy, _running, lastHealth, failures, _stats,
                 statsMutex, client, sink, opc, ctl, now, net,
                 config, gnssOutput, _taskHandle, mutexOwner, reader, sketch>>

(***************************************************************************)
(* connectCaster / connectCasterWithVersion.                               *)
(***************************************************************************)
\* A fallback that is taken after every failed try.
AfterFailedTryAgain(rev2) == "tcp"

\* After a failed try: the Rev1 fallback of connectCaster when the Rev2 try
\* failed, else setError(err, errMsg); return false.
AfterFailedTry(rev2) == IF rev2 THEN "tcp" ELSE "cerr"

\* client.connect(host, port, connectTimeoutMs): the caster is reached or not.
\* A socket that was still open is replaced.
TcpConnect ==
  /\ pc = "tcp"
  /\ \E reached \in {TRUE} \cup {FALSE : x \in net.kinds \cap {"refuse"}} :
       IF reached
       THEN /\ client' = [conn |-> TRUE, rx |-> <<>>]
            /\ net' = [net EXCEPT !.stage = "connected"]
            /\ pc' = "req"
            /\ w' = w
            /\ h' = [h EXCEPT !.tries = Append(@, IF w.useRev2 THEN 2 ELSE 1),
                              !.entered = FALSE]
       ELSE /\ client' = ClosedSocket
            /\ net' = SocketStopped(net)
            /\ pc' = AfterFailedTry(w.useRev2)
            /\ w' = [w EXCEPT !.err = "TCP_CONNECT_FAILED",
                             !.errMsg = [text |-> "Cannot reach", arg |-> 0],
                             !.useRev2 = FALSE]
            /\ h' = [h EXCEPT !.only401 = FALSE, !.rev2Failed = TRUE,
                              !.tries = Append(@, IF w.useRev2 THEN 2 ELSE 1)]
  /\ UNCHANGED <<_state, _healthy, _running, lastHealth, lastAttempt, failures,
                 _stats, statsMutex, sink, opc, ctl, now,
                 config, gnssOutput, _taskHandle, mutexOwner, reader, sketch>>

\* The request is printed to the socket (it is lost when the socket has been
\* closed meanwhile); unsigned long start = millis();
SendRequest ==
  /\ pc = "req"
  /\ net' = IF Connected(client) /\ net.stage = "connected"
            THEN [net EXCEPT !.stage = "request"] ELSE net
  /\ w' = [w EXCEPT !.t0 = now]
  /\ pc' = "wait"
  /\ UNCHANGED <<_state, _healthy, _running, lastHealth, lastAttempt, failures,
                 _stats, statsMutex, client, sink, opc, ctl, now, h,
                 config, gnssOutput, _taskHandle, mutexOwner, reader, sketch>>

\* client.available()
Available(c) == Len(c.rx) > 0

\* while (!client.available() && millis() - start < connectTimeoutMs) delay
AwaitResponse ==
  /\ pc = "wait"
  /\ Available(client) \/ ~(now - w.t0 < config.connectTimeoutMs)
  /\ pc' = "status"
  /\ UNCHANGED <<_state, _healthy, _running, lastHealth, lastAttempt, failures,
                 _stats, statsMutex, client, sink, w, opc, ctl, now, net, h,
                 config, gnssOutput, _taskHandle, mutexOwner, reader, sketch>>

\* The response line is a success line.
IsSuccessLine(line) ==
  \/ StartsWith(line, AsciiICY200)
  \/ StartsWith(line, AsciiHTTP11_200)
  \/ StartsWith(line, AsciiHTTP10_200)

\* "Parse specific HTTP errors"
ClassifyError(line) ==
  IF Contains(line, Ascii401) THEN "HTTP_AUTH_FAILED"
  ELSE IF Contains(line, Ascii404) THEN "HTTP_MOUNT_NOT_FOUND"
  ELSE "HTTP_UNKNOWN_ERROR"

ErrorText(err) ==
  CASE err = "HTTP_AUTH_FAILED" -> [text |-> "Invalid credentials for", arg |-> 0]
    [] err = "HTTP_MOUNT_NOT_FOUND" -> [text |-> "Mount not found", arg |-> 0]
    [] OTHER -> [text |-> "HTTP error", arg |-> 0]

\* if (!client.available()) { stop; HTTP_TIMEOUT }  else the status line is
\* read, trimmed and classified.
ReadStatus ==
  /\ pc = "status"
  /\ IF ~Available(client)
     THEN /\ client' = ClosedSocket /\ net' = SocketStopped(net)
          /\ w' = [w EXCEPT !.err = "HTTP_TIMEOUT",
                           !.errMsg = [text |-> "No response from", arg |-> 0],
                           !.useRev2 = FALSE, !.t0 = 0]
          /\ pc' = AfterFailedTry(w.useRev2)
          /\ h' = [h EXCEPT !.only401 = FALSE, !.rev2Failed = TRUE]
     ELSE LET rd == ReadStringUntil(client.rx, LF)
              line == Trim(rd.line)
          IN IF IsSuccessLine(line)
             THEN /\ client' = [client EXCEPT !.rx = rd.rest]
                  /\ net' = net
                  /\ w' = [w EXCEPT !.t0 = now]
                  /\ pc' = "drain"
                  /\ h' = [h EXCEPT !.only401 = FALSE]
             ELSE /\ client' = ClosedSocket /\ net' = SocketStopped(net)
                  /\ w' = [w EXCEPT !.err = ClassifyError(line),
                                   !.errMsg = ErrorText(ClassifyError(line)),
                                   !.useRev2 = FALSE, !.t0 = 0]
                  /\ pc' = AfterFailedTry(w.useRev2)
                  /\ h' = [h EXCEPT !.only401 =
                             h.only401 /\ line = StatusLine("401"),
                                    !.rev2Failed = TRUE]
  /\ UNCHANGED <<_state, _healthy, _running, lastHealth, lastAttempt, failures,
                 _stats, statsMutex, sink, opc, ctl, now,
                 config, gnssOutput, _taskHandle, mutexOwner, reader, sketch>>

\* A drain that takes the first line after the status line for the empty one.
IsAnyLine(header) == TRUE

\* header.trim(); header.length() == 0
IsBlankLine(header) == Len(Trim(header)) = 0

\* The header drain: one pass of its loop that does something (a header line
\* is read, or the drain times out).
DrainHeaders ==
  /\ pc = "drain"
  /\ IF now - w.t0 < config.connectTimeoutMs
     THEN /\ Available(client)
          /\ LET rd == ReadStringUntil(client.rx, LF) IN
               /\ client' = [client EXCEPT !.rx = rd.rest]
               /\ pc' = IF IsBlankLine(rd.line) THEN "vok" ELSE "drain"
          /\ h' = h
     ELSE /\ pc' = "vok" /\ client' = client
          /\ h' = [h EXCEPT !.drainTimedOut = TRUE]
  /\ UNCHANGED <<_state, _healthy, _running, lastHealth, lastAttempt, failures,
                 _stats, statsMutex, sink, w, opc, ctl, now, net,
                 config, gnssOutput, _taskHandle, mutexOwner, reader, sketch>>

\* connectCaster returns: its locals (err, errMsg, the version tried, the
\* wait and drain timers) go out of scope.
ReturnedFromConnect(l) ==
  [l EXCEPT !.err = "NONE", !.errMsg = NoMessage, !.useRev2 = TRUE, !.t0 = 0]

\* A worker that goes on to read the socket when connectCaster returns true.
OnAcceptedReadFirst == "read"

\* if (connectCaster(config)) { failures = 0; ...: where the worker goes on
\* when connectCaster returns true.
OnAccepted == "ok1"

\* connectCaster after an accepted try: _stats.protocolVersion = 2 or 1
VersionAccepted ==
  /\ pc = "vok"
  /\ _stats' = [_stats EXCEPT !.protocolVersion = IF w.useRev2 THEN 2 ELSE 1]
  /\ w' = ReturnedFromConnect(w)
  /\ pc' = OnAccepted
  /\ UNCHANGED <<_state, _healthy, _running, lastHealth, lastAttempt, failures,
                 statsMutex, client, sink, opc, ctl, now, net, h,
                 config, gnssOutput, _taskHandle, mutexOwner, reader, sketch>>

\* connectCaster after both tries failed: setError(err, errMsg); return false
ConnectError ==
  /\ pc = "cerr"
  /\ _stats' = SetError(_stats, w.err, w.errMsg)
  /\ w' = ReturnedFromConnect(w)
  /\ pc' = "f1"
  /\ h' = [h EXCEPT !.wiped = FALSE]
  /\ UNCHANGED <<_state, _healthy, _running, lastHealth, lastAttempt, failures,
                 statsMutex, client, sink, opc, ctl, now, net,
                 config, gnssOutput, _taskHandle, mutexOwner, reader, sketch>>

(***************************************************************************)
(* taskLoop, CONNECTING: the outcome of connectCaster.                     *)
(***************************************************************************)
\* A connection that starts with the failure count as it was left.
FailuresAsLeft(was) == was

\* failures = 0;  on the success path
FailuresOnConnect(was) == 0

\* failures = 0;
SuccessClearFailures ==
  /\ pc = "ok1"
  /\ failures' = FailuresOnConnect(failures) /\ pc' = "ok2"
  /\ h' = [h EXCEPT !.okSeen = TRUE, !.exit = ExitNone]
  /\ UNCHANGED <<_state, _healthy, _running, lastHealth, lastAttempt, _stats,
                 statsMutex, client, sink, w, opc, ctl, now, net,
                 config, gnssOutput, _taskHandle, mutexOwner, reader, sketch>>

\* parser.reset(); validFrames = 0; phase = VALIDATION; phaseStartTime
ValidationLocals(l) ==
  [l EXCEPT !.parser = ParserReset(l.parser), !.validFrames = 0,
            !.phase = "VALIDATION"]

\* A connection that starts with the health flag as it was left.
HealthyAsLeft(was) == was

\* _healthy = false;  on the success path
HealthyOnConnect(was) == FALSE

\* ... lastHealth = millis(); _healthy = false;
SuccessResetHealth ==
  /\ pc = "ok2"
  /\ w' = ValidationLocals(w)
  /\ lastHealth' = now /\ _healthy' = HealthyOnConnect(_healthy) /\ pc' = "ok3"
  /\ UNCHANGED <<_state, _running, lastAttempt, failures, _stats, statsMutex,
                 client, sink, opc, ctl, now, net, h,
                 config, gnssOutput, _taskHandle, mutexOwner, reader, sketch>>

\* _state = STREAMING; and the local accumulators are reset
SuccessEnterStreaming ==
  /\ pc = "ok3"
  /\ _state' = "STREAMING"
  /\ w' = [w EXCEPT !.localBytes = 0, !.localFrames = 0, !.localCrcErrors = 0,
                    !.localLastMsgType = 0, !.localLastFrameTime = 0,
                    !.lastStatsFlush = now]
  /\ pc' = "ok4"
  /\ h' = [h EXCEPT !.connFrames = 0, !.cleared = FALSE, !.entered = TRUE]
  /\ UNCHANGED <<_healthy, _running, lastHealth, lastAttempt, failures, _stats,
                 statsMutex, client, sink, opc, ctl, now, net,
                 config, gnssOutput, _taskHandle, mutexOwner, reader, sketch>>

\* under statsMutex: reconnects++, connectionStart, lastError = NONE, ""
SuccessCommitStats ==
  /\ pc = "ok4"
  /\ _stats' = [_stats EXCEPT !.reconnects = _stats.reconnects + 1,
                              !.connectionStart = now,
                              !.lastError = "NONE",
                              !.lastErrorMessage = NoMessage]
  /\ pc' = "strm"
  /\ h' = [h EXCEPT !.cleared = TRUE]
  /\ UNCHANGED <<_state, _healthy, _running, lastHealth, lastAttempt, failures,
                 statsMutex, client, sink, w, opc, ctl, now, net,
                 config, gnssOutput, _taskHandle, mutexOwner, reader, sketch>>

\* failures++ on a volatile uint8_t: the load ...
FailureLoad ==
  /\ pc = "f1"
  /\ w' = [w EXCEPT !.tmp = failures] /\ pc' = "f2"
  /\ h' = [h EXCEPT !.failedTry = TRUE]
  /\ UNCHANGED <<_state, _healthy, _running, lastHealth, lastAttempt, failures,
                 _stats, statsMutex, client, sink, opc, ctl, now, net,
                 config, gnssOutput, _taskHandle, mutexOwner, reader, sketch>>

\* ... and the store
FailureStore ==
  /\ pc = "f2"
  /\ failures' = (w.tmp + 1) % 256 /\ pc' = "f3"
  /\ w' = [w EXCEPT !.tmp = 0]
  /\ h' = [h EXCEPT !.exit = ExitNone]
  /\ UNCHANGED <<_state, _healthy, _running, lastHealth, lastAttempt, _stats,
                 statsMutex, client, sink, opc, ctl, now, net,
                 config, gnssOutput, _taskHandle, mutexOwner, reader, sketch>>

\* _state = DISCONNECTED;
FailureDisconnected ==
  /\ pc = "f3"
  /\ _state' = "DISCONNECTED" /\ pc' = "strm"
  /\ UNCHANGED <<_healthy, _running, lastHealth, lastAttempt, failures, _stats,
                 statsMutex, client, sink, w, opc, ctl, now, net, h,
                 config, gnssOutput, _taskHandle, mutexOwner, reader, sketch>>

(***************************************************************************)
(* disconnect(), as called by the worker; w.dret is where it returns to.   *)
(***************************************************************************)
WorkerDisconnectSocket ==
  /\ pc = "d1"
  /\ IF Connected(client)
     THEN client' = ClosedSocket /\ net' = SocketStopped(net)
     ELSE UNCHANGED <<client, net>>
  /\ pc' = "d2"
  /\ UNCHANGED <<_state, _healthy, _running, lastHealth, lastAttempt, failures,
                 _stats, statsMutex, sink, w, opc, ctl, now, h,
                 config, gnssOutput, _taskHandle, mutexOwner, reader, sketch>>

WorkerDisconnectHealthy ==
  /\ pc = "d2"
  /\ _healthy' = FALSE /\ pc' = "d3"
  /\ UNCHANGED <<_state, _running, lastHealth, lastAttempt, failures, _stats,
                 statsMutex, client, sink, w, opc, ctl, now, net, h,
                 config, gnssOutput, _taskHandle, mutexOwner, reader, sketch>>

WorkerDisconnectState ==
  /\ pc = "d3"
  /\ _state' = "DISCONNECTED" /\ pc' = "d4"
  /\ UNCHANGED <<_healthy, _running, lastHealth, lastAttempt, failures, _stats,
                 statsMutex, client, sink, w, opc, ctl, now, net, h,
                 config, gnssOutput, _taskHandle, mutexOwner, reader, sketch>>

WorkerDisconnectVersion ==
  /\ pc = "d4"
  /\ _stats' = [_stats EXCEPT !.protocolVersion = 0]
  /\ pc' = w.dret
  /\ w' = [w EXCEPT !.dret = "loop"]
  /\ UNCHANGED <<_state, _healthy, _running, lastHealth, lastAttempt, failures,
                 statsMutex, client, sink, opc, ctl, now, net, h,
                 config, gnssOutput, _taskHandle, mutexOwner, reader, sketch>>

(***************************************************************************)
(* taskLoop, STREAMING.                                                    *)
(***************************************************************************)
\* if (_state == STREAMING)
StreamingTest ==
  /\ pc = "strm"
  /\ pc' = IF _state = "STREAMING" THEN "sconn" ELSE "lock"
  /\ UNCHANGED <<_state, _healthy, _running, lastHealth, lastAttempt, failures,
                 _stats, statsMutex, client, sink, w, opc, ctl, now, net, h,
                 config, gnssOutput, _taskHandle, mutexOwner, reader, sketch>>

\* if (!client.connected())
SocketTest ==
  /\ pc = "sconn"
  /\ pc' = IF ~Connected(client) THEN "lost" ELSE "read"
  /\ UNCHANGED <<_state, _healthy, _running, lastHealth, lastAttempt, failures,
                 _stats, statsMutex, client, sink, w, opc, ctl, now, net, h,
                 config, gnssOutput, _taskHandle, mutexOwner, reader, sketch>>

\* setError(TCP_CONNECT_FAILED, "Socket closed by ..."); disconnect(); continue;
ConnectionLost ==
  /\ pc = "lost"
  /\ _stats' = SetError(_stats, "TCP_CONNECT_FAILED",
                        [text |-> "Socket closed by", arg |-> 0])
  /\ w' = [w EXCEPT !.dret = "loop"]
  /\ pc' = "d1"
  /\ h' = [h EXCEPT !.wiped = FALSE, !.tornDown = Min(@ + 1, 2)]
  /\ UNCHANGED <<_state, _healthy, _running, lastHealth, lastAttempt, failures,
                 statsMutex, client, sink, opc, ctl, now, net,
                 config, gnssOutput, _taskHandle, mutexOwner, reader, sketch>>

\* int n = client.read(buffer, config.bufferSize); localBytes += n when n > 0
ReadSocket ==
  /\ pc = "read"
  /\ LET n == Min(Len(client.rx), config.bufferSize) IN
       /\ w' = [w EXCEPT !.buffer = Take(client.rx, n),
                         !.localBytes = IF n > 0 THEN @ + n ELSE @]
       /\ client' = [client EXCEPT !.rx = Drop(client.rx, n)]
       /\ pc' = IF n > 0 THEN "fwd" ELSE "zombie"
       /\ h' = [h EXCEPT !.readLog = @ \o Take(client.rx, n), !.readPass = TRUE]
  /\ UNCHANGED <<_state, _healthy, _running, lastHealth, lastAttempt, failures,
                 _stats, statsMutex, sink, opc, ctl, now, net,
                 config, gnssOutput, _taskHandle, mutexOwner, reader, sketch>>

\* A write that keeps only the last buffer.
WrittenOver(out, bytes) == bytes

\* gnssOutput->write(buffer, n)
Written(out, bytes) == out \o bytes

\* if (gnssOutput) gnssOutput->write(buffer, n);
Forward ==
  /\ pc = "fwd"
  /\ sink' = IF gnssOutput # "null" THEN Written(sink, w.buffer) ELSE sink
  /\ pc' = "parse"
  /\ UNCHANGED <<_state, _healthy, _running, lastHealth, lastAttempt, failures,
                 _stats, statsMutex, client, w, opc, ctl, now, net, h,
                 config, gnssOutput, _taskHandle, mutexOwner, reader, sketch>>

\* Promotion one frame early.
EnoughValidFramesEarly(n) == n + 1 >= config.requiredValidFrames

\* if (validFrames >= config.requiredValidFrames)
EnoughValidFrames(n) == n >= config.requiredValidFrames

\* The strict validation loop over the bytes of one read at time t.  a.l are
\* the locals, a.lastHealth the watermark, a.healthy whether _healthy = true
\* was written, a.counted the valid frames seen in this read.
RECURSIVE ValidateBytes(_, _, _)
ValidateBytes(a, bytes, t) ==
  IF bytes = <<>> THEN a
  ELSE LET f == feed(a.l.parser, Head(bytes))
           l1 == [a.l EXCEPT !.parser = f.p]
       IN IF f.r.valid
          THEN LET l2 == [l1 EXCEPT !.validFrames = (@ + 1) % 256,
                                    !.localFrames = @ + 1,
                                    !.localLastMsgType = f.r.messageType,
                                    !.localLastFrameTime = t]
                   a2 == [a EXCEPT !.l = l2, !.lastHealth = t, !.counted = @ + 1]
               IN IF EnoughValidFrames(l2.validFrames)
                  THEN [a2 EXCEPT !.l = [l2 EXCEPT !.phase = "STREAMING",
                                                   !.lastSampleTime = t],
                                  !.healthy = TRUE]
                  ELSE ValidateBytes(a2, Tail(bytes), t)
          ELSE IF f.r.crcError
          THEN ValidateBytes([a EXCEPT !.l = [l1 EXCEPT !.localCrcErrors = @ + 1]],
                             Tail(bytes), t)
          ELSE ValidateBytes([a EXCEPT !.l = l1], Tail(bytes), t)

\* A read of the Steady phase whose passive sample is due at time t and finds
\* no 0xD3 in its first min(n, passiveScanBytes) bytes.
SampleFails(l, bytes, t) ==
  /\ l.phase = "STREAMING" /\ bytes # <<>>
  /\ t - l.lastSampleTime > config.passiveSampleMs
  /\ \A i \in 1..Min(Len(bytes), PassiveScanBytes) : bytes[i] # Preamble

\* A passive sample that refreshes the watermark whatever the bytes are.
PassiveSampleAnyByte(a, bytes, t) ==
  IF t - a.l.lastSampleTime > config.passiveSampleMs
  THEN [a EXCEPT !.lastHealth = t, !.healthy = TRUE,
                 !.l = [a.l EXCEPT !.lastSampleTime = t, !.localLastFrameTime = t]]
  ELSE a

\* The passive sample of one read at time t, when it is due.
PassiveSample(a, bytes, t) ==
  IF t - a.l.lastSampleTime > config.passiveSampleMs
  THEN LET scanLimit == Min(Len(bytes), PassiveScanBytes) IN
       IF \E i \in 1..scanLimit : bytes[i] = Preamble
       THEN [a EXCEPT !.lastHealth = t, !.healthy = TRUE,
                      !.l = [a.l EXCEPT !.lastSampleTime = t,
                                        !.localLastFrameTime = t]]
       ELSE a
  ELSE a

\* The phase logic applied to the bytes just read.
PhaseLogic(l, bytes, t, watermark) ==
  LET a == [l |-> l, lastHealth |-> watermark, healthy |-> FALSE, counted |-> 0] IN
  IF l.phase = "VALIDATION" THEN ValidateBytes(a, bytes, t)
  ELSE PassiveSample(a, bytes, t)

\* Locals whose parser starts every read from the Sync stage.
StartedAfresh(l) == [l EXCEPT !.parser = ParserReset(l.parser)]

\* RtcmParser parser; uint8_t validFrames; ... are declared ahead of the loop:
\* a pass of the loop finds them as the pass before left them.
CarriedOver(l) == l

Validate ==
  /\ pc = "parse"
  /\ LET a == PhaseLogic(CarriedOver(w), w.buffer, now, lastHealth) IN
       /\ w' = [a.l EXCEPT !.buffer = <<>>]
       /\ lastHealth' = a.lastHealth
       /\ _healthy' = IF a.healthy THEN TRUE ELSE _healthy
       /\ h' = [h EXCEPT !.connFrames = Min(@ + a.counted, RequiredValidFrames + 1),
                         !.sampleFailed = @ \/ SampleFails(w, w.buffer, now)]
  /\ pc' = "zombie"
  /\ UNCHANGED <<_state, _running, lastAttempt, failures, _stats, statsMutex,
                 client, sink, opc, ctl, now, net,
                 config, gnssOutput, _taskHandle, mutexOwner, reader, sketch>>

\* A zombie test that lets one more millisecond pass.
ZombieDueLate(t, last) == t - last > config.healthTimeoutMs + 1

\* millis() - lastHealth > config.healthTimeoutMs
ZombieDue(t, last) == t - last > config.healthTimeoutMs

\* if (millis() - lastHealth > config.healthTimeoutMs)
ZombieTest ==
  /\ pc = "zombie"
  /\ pc' = IF ZombieDue(now, lastHealth) THEN "zerr" ELSE "lock"
  /\ UNCHANGED <<_state, _healthy, _running, lastHealth, lastAttempt, failures,
                 _stats, statsMutex, client, sink, w, opc, ctl, now, net, h,
                 config, gnssOutput, _taskHandle, mutexOwner, reader, sketch>>

\* setError(ZOMBIE_STREAM_DETECTED, ...); disconnect();
ZombieError ==
  /\ pc = "zerr"
  /\ _stats' = SetError(_stats, "ZOMBIE_STREAM_DETECTED",
                        [text |-> "No valid RTCM for", arg |-> config.healthTimeoutMs \div 1000])
  /\ w' = [w EXCEPT !.dret = "lock"]
  /\ pc' = "d1"
  /\ h' = [h EXCEPT !.wiped = FALSE, !.tornDown = Min(@ + 1, 2)]
  /\ UNCHANGED <<_state, _healthy, _running, lastHealth, lastAttempt, failures,
                 statsMutex, client, sink, opc, ctl, now, net,
                 config, gnssOutput, _taskHandle, mutexOwner, reader, sketch>>

\* if (_state == LOCKED_OUT) { vTaskDelay(500); continue; }
LockedOutTest ==
  /\ pc = "lock"
  /\ pc' = IF _state = "LOCKED_OUT" THEN "loop" ELSE "flush"
  /\ h' = IF _state = "LOCKED_OUT" THEN [h EXCEPT !.readPass = FALSE] ELSE h
  /\ UNCHANGED <<_state, _healthy, _running, lastHealth, lastAttempt, failures,
                 _stats, statsMutex, client, sink, w, opc, ctl, now, net,
                 config, gnssOutput, _taskHandle, mutexOwner, reader, sketch>>

\* A flush that does not add the frames counted.
FlushedWithoutFrames(st, l, t) ==
  [st EXCEPT !.bytesReceived = @ + l.localBytes,
             !.crcErrors = @ + l.localCrcErrors,
             !.lastMessageType = IF l.localLastMsgType # 0 THEN l.localLastMsgType ELSE @]

\* The local accumulators folded into the registry at time t.
Flushed(st, l, t) ==
  [st EXCEPT !.bytesReceived = @ + l.localBytes,
             !.totalFrames = @ + l.localFrames,
             !.crcErrors = @ + l.localCrcErrors,
             !.lastMessageType = IF l.localLastMsgType # 0 THEN l.localLastMsgType ELSE @,
             !.lastFrameTime = IF l.localLastFrameTime # 0 THEN l.localLastFrameTime ELSE @,
             !.totalUptime = IF st.connectionStart > 0 THEN t - st.connectionStart ELSE @]

\* The periodic flush, then vTaskDelay(10) and the next pass.
StatsFlush ==
  /\ pc = "flush"
  /\ IF now - w.lastStatsFlush >= StatsFlushMs
     THEN /\ _stats' = Flushed(_stats, w, now)
          /\ w' = [w EXCEPT !.localBytes = 0, !.localFrames = 0,
                            !.localCrcErrors = 0, !.localLastMsgType = 0,
                            !.localLastFrameTime = 0, !.lastStatsFlush = now]
     ELSE UNCHANGED <<_stats, w>>
  /\ pc' = "loop"
  /\ h' = [h EXCEPT !.readPass = FALSE]
  /\ UNCHANGED <<_state, _healthy, _running, lastHealth, lastAttempt, failures,
                 statsMutex, client, sink, opc, ctl, now, net,
                 config, gnssOutput, _taskHandle, mutexOwner, reader, sketch>>

(***************************************************************************)
(* The control surface, called by an observer task: each call runs          *)
(* statement by statement, interleaved with the worker.                     *)
(***************************************************************************)
\* The observer enters stop(), reset() or reconnect().
CallControl ==
  /\ opc = "idle" /\ ctl > 0 /\ pc # "none"
  /\ \E call \in {"stop.d1", "reset.f", "reconnect.d1"} :
       /\ opc' = call
       /\ h' = [h EXCEPT !.controlled = TRUE,
                         !.reconnected = @ \/ call = "reconnect.d1",
                         !.stopCalled = @ \/ call = "stop.d1",
                         !.stopped = FALSE, !.afterReconnect = FALSE,
                         !.afterReset = (call = "reset.f" /\ _state = "LOCKED_OUT")]
  /\ ctl' = ctl - 1
  /\ UNCHANGED <<_state, _healthy, _running, lastHealth, lastAttempt, failures,
                 _stats, statsMutex, client, sink, pc, w, now, net,
                 config, gnssOutput, _taskHandle, mutexOwner, reader, sketch>>

\* disconnect(), as called by stop() and reconnect(): its four statements.
ControlDisconnect ==
  /\ opc \in {"stop.d1", "stop.d2", "stop.d3", "stop.d4",
              "reconnect.d1", "reconnect.d2", "reconnect.d3", "reconnect.d4"}
  /\ LET call == IF opc \in {"stop.d1", "stop.d2", "stop.d3", "stop.d4"}
                 THEN "stop" ELSE "reconnect"
         step == CHOOSE k \in 1..4 :
                   opc \in {"stop.d" \o ToString(k), "reconnect.d" \o ToString(k)}
     IN CASE step = 1 ->
               /\ IF Connected(client)
                  THEN client' = ClosedSocket /\ net' = SocketStopped(net)
                  ELSE UNCHANGED <<client, net>>
               /\ opc' = call \o ".d2"
               /\ UNCHANGED <<_healthy, _state, _stats>>
          [] step = 2 ->
               /\ _healthy' = FALSE
               /\ opc' = call \o ".d3"
               /\ UNCHANGED <<client, net, _state, _stats>>
          [] step = 3 ->
               /\ _state' = "DISCONNECTED"
               /\ opc' = call \o ".d4"
               /\ UNCHANGED <<client, net, _healthy, _stats>>
          [] step = 4 ->
               /\ _stats' = [_stats EXCEPT !.protocolVersion = 0]
               /\ opc' = IF call = "stop" THEN "stop.f" ELSE "reconnect.a"
               /\ UNCHANGED <<client, net, _healthy, _state>>
  /\ UNCHANGED <<_running, lastHealth, lastAttempt, failures, statsMutex, sink,
                 pc, w, ctl, now, h,
                 config, gnssOutput, _taskHandle, mutexOwner, reader, sketch>>

\* stop(): failures = config.maxTries; _state = LOCKED_OUT;
Stop ==
  /\ opc \in {"stop.f", "stop.s"}
  /\ IF opc = "stop.f"
     THEN /\ failures' = config.maxTries /\ opc' = "stop.s"
          /\ h' = [h EXCEPT !.exit = ExitNone]
          /\ UNCHANGED _state
     ELSE /\ _state' = "LOCKED_OUT" /\ opc' = "idle"
          /\ h' = [h EXCEPT !.stopped = TRUE]
          /\ UNCHANGED failures
  /\ UNCHANGED <<_healthy, _running, lastHealth, lastAttempt, _stats, statsMutex,
                 client, sink, pc, w, ctl, now, net,
                 config, gnssOutput, _taskHandle, mutexOwner, reader, sketch>>

\* reset(): failures = 0; _state = DISCONNECTED; lastError = NONE, ""
Reset ==
  /\ opc \in {"reset.f", "reset.s", "reset.e"}
  /\ CASE opc = "reset.f" ->
            /\ failures' = 0 /\ opc' = "reset.s"
            /\ h' = [h EXCEPT !.exit = ExitNone]
            /\ UNCHANGED <<_state, _stats>>
       [] opc = "reset.s" ->
            /\ _state' = "DISCONNECTED" /\ opc' = "reset.e"
            /\ UNCHANGED <<failures, _stats, h>>
       [] opc = "reset.e" ->
            /\ _stats' = SetError(_stats, "NONE", NoMessage) /\ opc' = "idle"
            /\ h' = [h EXCEPT !.wiped = TRUE]
            /\ UNCHANGED <<failures, _state>>
  /\ UNCHANGED <<_healthy, _running, lastHealth, lastAttempt, statsMutex, client,
                 sink, pc, w, ctl, now, net,
                 config, gnssOutput, _taskHandle, mutexOwner, reader, sketch>>

\* reconnect(): disconnect(); lastAttempt = 0;
Reconnect ==
  /\ opc = "reconnect.a"
  /\ lastAttempt' = 0 /\ opc' = "idle"
  /\ h' = [h EXCEPT !.afterReconnect = TRUE, !.reconnected = TRUE]
  /\ UNCHANGED <<_state, _healthy, _running, lastHealth, failures, _stats,
                 statsMutex, client, sink, pc, w, ctl, now, net,
                 config, gnssOutput, _taskHandle, mutexOwner, reader, sketch>>

(***************************************************************************)
(* The caster and the clock.                                               *)
(***************************************************************************)
\* The caster answers a request with a status line.
CasterRespond ==
  /\ net.stage = "request" /\ Connected(client)
  /\ \E kind \in StatusKinds \cap net.kinds, n \in 0..net.maxHdrs :
       /\ client' = [client EXCEPT !.rx = @ \o StatusLine(kind) \o CRLF]
       /\ net' = IF kind \in {"ICY200", "HTTP200"}
                 THEN [net EXCEPT !.stage = "headers", !.hdrs = n]
                 ELSE [net EXCEPT !.stage = "done"]
  /\ UNCHANGED <<_state, _healthy, _running, lastHealth, lastAttempt, failures,
                 _stats, statsMutex, sink, pc, w, opc, ctl, now, h,
                 config, gnssOutput, _taskHandle, mutexOwner, reader, sketch>>

\* The caster sends the next header line, or the empty line ending them.
CasterHeader ==
  /\ net.stage = "headers" /\ Connected(client)
  /\ IF net.hdrs > 0
     THEN /\ client' = [client EXCEPT !.rx = @ \o HeaderLine \o CRLF]
          /\ net' = [net EXCEPT !.hdrs = @ - 1, !.hdrsSent = @ + 1]
     ELSE /\ client' = [client EXCEPT !.rx = @ \o CRLF]
          /\ net' = [net EXCEPT !.stage = "stream"]
  /\ UNCHANGED <<_state, _healthy, _running, lastHealth, lastAttempt, failures,
                 _stats, statsMutex, sink, pc, w, opc, ctl, now, h,
                 config, gnssOutput, _taskHandle, mutexOwner, reader, sketch>>

\* The caster streams one frame, well-formed or with a corrupted CRC.
CasterStream ==
  /\ net.stage = "stream" /\ Connected(client) /\ net.chunks > 0
  /\ \E c \in Chunks :
       client' = [client EXCEPT !.rx = @ \o c]
  /\ net' = [net EXCEPT !.chunks = @ - 1]
  /\ UNCHANGED <<_state, _healthy, _running, lastHealth, lastAttempt, failures,
                 _stats, statsMutex, sink, pc, w, opc, ctl, now, h,
                 config, gnssOutput, _taskHandle, mutexOwner, reader, sketch>>

\* The caster closes the connection.
CasterClose ==
  /\ net.stage = "stream" /\ Connected(client) /\ "close" \in net.kinds
  /\ client' = ClosedSocket /\ net' = SocketStopped(net)
  /\ UNCHANGED <<_state, _healthy, _running, lastHealth, lastAttempt, failures,
                 _stats, statsMutex, sink, pc, w, opc, ctl, now, h,
                 config, gnssOutput, _taskHandle, mutexOwner, reader, sketch>>

\* The points at which the worker is suspended or blocked: the top of the
\* loop (reached through vTaskDelay), the blocking connect, the wait for the
\* response and the header drain.
Suspended == pc \in {"none", "loop", "tcp", "wait", "drain"}

\* millis() advances while the worker is suspended.
Tick ==
  /\ now < net.maxClock /\ Suspended
  /\ now' = now + 1
  /\ UNCHANGED <<_state, _healthy, _running, lastHealth, lastAttempt, failures,
                 _stats, statsMutex, client, sink, pc, w, opc, ctl, net, h,
                 config, gnssOutput, _taskHandle, mutexOwner, reader, sketch>>

Worker ==
  \/ TaskLoopTop \/ TaskLoopExit \/ ExitFlush \/ ExitTask \/ HygieneTest \/ HygieneClose \/ HygieneUnhealthy
  \/ DisconnectedTest \/ RetryWindow \/ LockoutTest \/ LockoutError
  \/ LockoutEnter \/ EnterConnecting \/ ConnectingTest \/ StampAttempt
  \/ TcpConnect \/ SendRequest \/ AwaitResponse \/ ReadStatus \/ DrainHeaders
  \/ VersionAccepted \/ ConnectError
  \/ SuccessClearFailures \/ SuccessResetHealth \/ SuccessEnterStreaming
  \/ SuccessCommitStats \/ FailureLoad \/ FailureStore \/ FailureDisconnected
  \/ WorkerDisconnectSocket \/ WorkerDisconnectHealthy \/ WorkerDisconnectState
  \/ WorkerDisconnectVersion
  \/ StreamingTest \/ SocketTest \/ ConnectionLost \/ ReadSocket \/ Forward
  \/ Validate \/ ZombieTest \/ ZombieError \/ LockedOutTest \/ StatsFlush

Observer == CallControl \/ ControlDisconnect \/ Stop \/ Reset \/ Reconnect

Caster == CasterRespond \/ CasterHeader \/ CasterStream \/ CasterClose

Sketch == Begin \/ StartTask \/ StopTask \/ StopTaskWait

Next == Sketch \/ Worker \/ Observer \/ Caster \/ Tick

Spec == Init /\ [][Next]_vars

\* The scheduler runs the worker whenever it is ready, millis() advances over
\* the delays of the worker's passes (each pass ends in a vTaskDelay), and a
\* stopTask() in its wait polls the handle every 100 ms.
InitLive == InitIn(LiveBudgets)

\* ENABLED <<Worker>>_vars: a worker exists and is not held in the wait for
\* the response or in the header drain (client.available() false, timeout
\* still running).
WorkerReady ==
  /\ pc # "none"
  /\ pc = "wait" => Available(client) \/ ~(now - w.t0 < config.connectTimeoutMs)
  /\ pc = "drain" => Available(client) \/ ~(now - w.t0 < config.connectTimeoutMs)

\* WF_vars(Worker), its ENABLED written as WorkerReady.
WorkerFair == []<>(~WorkerReady) \/ []<><<Worker>>_vars

SpecLive ==
  InitLive /\ [][Next]_vars
           /\ WorkerFair /\ SF_vars(Tick) /\ WF_vars(StopTaskWait)

(***************************************************************************)
(* The statistics registry under statsMutex, statement by statement: the   *)
(* worker's accesses (connect-success commit, periodic flush, setError,    *)
(* the protocolVersion writes, the flush of the exit tail), the observer's *)
(* (reset, disconnect) and getStats() of a reader task.  Between two        *)
(* accesses the worker is at the top of its loop.                           *)
(***************************************************************************)
\* The members of NtripStats in declaration order, as the struct copy
\* snapshot = _stats visits them.
StatsFields ==
  <<"totalFrames", "crcErrors", "bytesReceived", "reconnects", "totalUptime",
    "lastMessageType", "lastFrameTime", "connectionStart", "lastError",
    "lastErrorMessage", "protocolVersion">>

Sections == {"sec.commit", "sec.flush", "sec.error", "sec.version", "sec.exit"}

\* The errors the worker commits here, each with the message it carries.
ErrorPairs ==
  { [err |-> "TCP_CONNECT_FAILED", msg |-> [text |-> "Cannot reach", arg |-> 0]],
    [err |-> "ZOMBIE_STREAM_DETECTED", msg |-> [text |-> "No valid RTCM for", arg |-> 0]] }

\* The number of registry writes of a section.
SectionLen(sec) ==
  CASE sec = "sec.commit" -> 4
    [] sec = "sec.flush" -> 6
    [] sec = "sec.error" -> 2
    [] sec = "sec.version" -> 1
    [] sec = "sec.exit" -> 3

\* The k-th registry write of a section, with locals l at time t.
SectionWrite(sec, k, st, l, t) ==
  CASE sec = "sec.commit" ->
         (CASE k = 1 -> [st EXCEPT !.reconnects = @ + 1]
            [] k = 2 -> [st EXCEPT !.connectionStart = t]
            [] k = 3 -> [st EXCEPT !.lastError = "NONE"]
            [] k = 4 -> [st EXCEPT !.lastErrorMessage = NoMessage])
    [] sec \in {"sec.flush", "sec.exit"} ->
         (CASE k = 1 -> [st EXCEPT !.bytesReceived = @ + l.localBytes]
            [] k = 2 -> [st EXCEPT !.totalFrames = @ + l.localFrames]
            [] k = 3 -> [st EXCEPT !.crcErrors = @ + l.localCrcErrors]
            [] k = 4 -> IF l.localLastMsgType # 0
                        THEN [st EXCEPT !.lastMessageType = l.localLastMsgType] ELSE st
            [] k = 5 -> IF l.localLastFrameTime # 0
                        THEN [st EXCEPT !.lastFrameTime = l.localLastFrameTime] ELSE st
            [] k = 6 -> IF st.connectionStart > 0
                        THEN [st EXCEPT !.totalUptime = t - st.connectionStart] ELSE st)
    [] sec = "sec.error" ->
         (CASE k = 1 -> [st EXCEPT !.lastError = l.err]
            [] k = 2 -> [st EXCEPT !.lastErrorMessage = l.errMsg])
    [] sec = "sec.version" -> [st EXCEPT !.protocolVersion = l.t0]

\* A take that does not wait for the holder.
CanTakeHeld(owner) == TRUE

\* xSemaphoreTake succeeds when no task holds the mutex.
CanTake(owner) == owner = "none"

\* A read pass leaves one frame, one CRC error and a buffer of bytes in the
\* local accumulators.
StatsAccumulate ==
  /\ pc = "loop" /\ _state = "STREAMING"
  /\ w.localFrames = 0 /\ _stats.totalFrames < MaxCount
  /\ w' = [w EXCEPT !.localBytes = config.bufferSize, !.localFrames = 1,
                    !.localCrcErrors = 1, !.localLastMsgType = 1005,
                    !.localLastFrameTime = now]
  /\ UNCHANGED <<_state, _healthy, _running, lastHealth, lastAttempt, failures,
                 _stats, statsMutex, client, sink, pc, opc, ctl, now, net, h,
                 config, gnssOutput, _taskHandle, mutexOwner, reader, sketch>>

\* The worker reaches its next registry access.  Not connected, it commits
\* the error of a failed handshake or the version of an accepted one, which
\* the connect-success commit follows; connected, it commits the error that
\* ends the connection, which the protocolVersion = 0 of disconnect()
\* follows.  The periodic flush ends any pass, and the exit tail is entered
\* from the top of the loop.
WorkerEnter ==
  /\ pc = "loop"
  /\ \/ /\ _state = "DISCONNECTED" /\ _stats.reconnects < MaxCount
        /\ \E v \in 1..2 :
             /\ pc' = "sec.version" /\ w' = [w EXCEPT !.tmp = 0, !.t0 = v]
     \/ /\ pc' \in {"sec.flush", "sec.exit"} /\ w' = [w EXCEPT !.tmp = 0]
     \/ \E e \in ErrorPairs :
          /\ e.err = "ZOMBIE_STREAM_DETECTED" <=> _state = "STREAMING"
          /\ pc' = "sec.error"
          /\ w' = [w EXCEPT !.tmp = 0, !.err = e.err, !.errMsg = e.msg]
  /\ UNCHANGED <<_state, _healthy, _running, lastHealth, lastAttempt, failures,
                 _stats, statsMutex, client, sink, opc, ctl, now, net, h,
                 config, gnssOutput, _taskHandle, mutexOwner, reader, sketch>>

\* xSemaphoreTake(statsMutex, ...) by the worker
WorkerTake ==
  /\ pc \in Sections /\ w.tmp = 0 /\ CanTake(mutexOwner)
  /\ mutexOwner' = "worker" /\ w' = [w EXCEPT !.tmp = 1]
  /\ UNCHANGED <<_state, _healthy, _running, lastHealth, lastAttempt, failures,
                 _stats, statsMutex, client, sink, pc, opc, ctl, now, net, h,
                 config, gnssOutput, _taskHandle, reader, sketch>>

\* The flush gives up when the mutex stays held for its 10 ms (100 ms in the
\* exit tail): nothing is written and the accumulators are kept.
FlushTimeout ==
  /\ pc \in {"sec.flush", "sec.exit"} /\ w.tmp = 0 /\ ~CanTake(mutexOwner)
  /\ pc' = IF pc = "sec.exit" THEN "exited" ELSE "loop"
  /\ UNCHANGED <<_state, _healthy, _running, lastHealth, lastAttempt, failures,
                 _stats, statsMutex, client, sink, w, opc, ctl, now, net, h,
                 config, gnssOutput, _taskHandle, mutexOwner, reader, sketch>>

\* One assignment to a member of _stats inside the critical section.
WorkerWrite ==
  /\ pc \in Sections /\ w.tmp \in 1..SectionLen(pc)
  /\ _stats' = SectionWrite(pc, w.tmp, _stats, w, now)
  /\ w' = [w EXCEPT !.tmp = @ + 1]
  /\ UNCHANGED <<_state, _healthy, _running, lastHealth, lastAttempt, failures,
                 statsMutex, client, sink, pc, opc, ctl, now, net, h,
                 config, gnssOutput, _taskHandle, mutexOwner, reader, sketch>>

\* Where the worker goes after the give of a section.
AfterSection(sec, st, l) ==
  CASE sec = "sec.exit" -> "exited"
    [] sec = "sec.version" /\ l.t0 # 0 -> "sec.commit"
    [] sec = "sec.error" /\ st = "STREAMING" -> "sec.version"
    [] OTHER -> "loop"

\* xSemaphoreGive; the periodic flush then clears the accumulators, and the
\* flush of the exit tail is the last access the task makes.
WorkerGive ==
  /\ pc \in Sections /\ w.tmp = SectionLen(pc) + 1
  /\ mutexOwner' = "none" /\ pc' = AfterSection(pc, _state, w)
  /\ _state' = CASE pc = "sec.commit" -> "STREAMING"
                  [] pc = "sec.version" /\ w.t0 = 0 -> "DISCONNECTED"
                  [] OTHER -> _state
  /\ w' = IF pc = "sec.flush"
          THEN [w EXCEPT !.tmp = 0, !.localBytes = 0, !.localFrames = 0,
                         !.localCrcErrors = 0, !.localLastMsgType = 0,
                         !.localLastFrameTime = 0, !.lastStatsFlush = now]
          ELSE [w EXCEPT !.tmp = 0, !.err = "NONE", !.errMsg = NoMessage, !.t0 = 0]
  /\ UNCHANGED <<_healthy, _running, lastHealth, lastAttempt, failures,
                 _stats, statsMutex, client, sink, opc, ctl, now, net, h,
                 config, gnssOutput, _taskHandle, reader, sketch>>

\* The observer reaches the critical section of reset() or of disconnect().
ObserverEnter ==
  /\ opc = "idle" /\ pc # "none"
  /\ opc' \in {"reset.e", "stop.d4"}
  /\ UNCHANGED <<_state, _healthy, _running, lastHealth, lastAttempt, failures,
                 _stats, statsMutex, client, sink, pc, w, ctl, now, net, h,
                 config, gnssOutput, _taskHandle, mutexOwner, reader, sketch>>

\* reset(): take; lastError = NONE; lastErrorMessage = ""; give.
\* disconnect(): take; protocolVersion = 0; give.
ObserverSection ==
  /\ CASE opc \in {"reset.e", "stop.d4"} ->
            /\ CanTake(mutexOwner) /\ mutexOwner' = "observer"
            /\ opc' = opc \o ".1" /\ UNCHANGED _stats
       [] opc = "reset.e.1" ->
            /\ _stats' = [_stats EXCEPT !.lastError = "NONE"]
            /\ opc' = "reset.e.2" /\ UNCHANGED mutexOwner
       [] opc = "reset.e.2" ->
            /\ _stats' = [_stats EXCEPT !.lastErrorMessage = NoMessage]
            /\ opc' = "give" /\ UNCHANGED mutexOwner
       [] opc = "stop.d4.1" ->
            /\ _stats' = [_stats EXCEPT !.protocolVersion = 0]
            /\ opc' = "give" /\ UNCHANGED mutexOwner
       [] opc = "give" ->
            /\ mutexOwner' = "none" /\ opc' = "idle" /\ UNCHANGED _stats
       [] OTHER -> FALSE
  /\ UNCHANGED <<_state, _healthy, _running, lastHealth, lastAttempt, failures,
                 statsMutex, client, sink, pc, w, ctl, now, net, h,
                 config, gnssOutput, _taskHandle, reader, sketch>>

\* getStats(): NtripStats snapshot; then the take.
GetStatsTake ==
  /\ reader.pc = "idle" /\ statsMutex /\ CanTake(mutexOwner)
  /\ mutexOwner' = "reader"
  /\ reader' = [pc |-> "copy", k |-> 1, snapshot |-> StatsInit]
  /\ h' = [h EXCEPT !.atTake = _stats]
  /\ UNCHANGED <<_state, _healthy, _running, lastHealth, lastAttempt, failures,
                 _stats, statsMutex, client, sink, pc, w, opc, ctl, now, net,
                 config, gnssOutput, _taskHandle, sketch>>

\* snapshot = _stats, member by member.
GetStatsCopy ==
  /\ reader.pc = "copy"
  /\ LET f == StatsFields[reader.k] IN
       reader' = [reader EXCEPT !.snapshot = [@ EXCEPT ![f] = _stats[f]],
                                !.k = @ + 1,
                                !.pc = IF reader.k = Len(StatsFields) THEN "give" ELSE "copy"]
  /\ UNCHANGED <<_state, _healthy, _running, lastHealth, lastAttempt, failures,
                 _stats, statsMutex, client, sink, pc, w, opc, ctl, now, net, h,
                 config, gnssOutput, _taskHandle, mutexOwner, sketch>>

\* xSemaphoreGive; return snapshot.
GetStatsGive ==
  /\ reader.pc = "give"
  /\ mutexOwner' = "none" /\ reader' = [reader EXCEPT !.pc = "return", !.k = 0]
  /\ UNCHANGED <<_state, _healthy, _running, lastHealth, lastAttempt, failures,
                 _stats, statsMutex, client, sink, pc, w, opc, ctl, now, net, h,
                 config, gnssOutput, _taskHandle, sketch>>

\* The caller has the snapshot; the next call starts afresh.
GetStatsReturn ==
  /\ reader.pc = "return"
  /\ reader' = ReaderIdle /\ h' = [h EXCEPT !.atTake = StatsInit]
  /\ UNCHANGED <<_state, _healthy, _running, lastHealth, lastAttempt, failures,
                 _stats, statsMutex, client, sink, pc, w, opc, ctl, now, net,
                 config, gnssOutput, _taskHandle, mutexOwner, sketch>>

\* The object as constructed, in front of a clock that runs to StatsClock.
InitStats ==
  /\ _state = "DISCONNECTED" /\ _healthy = FALSE /\ _running = FALSE
  /\ lastHealth = 0 /\ lastAttempt = 0 /\ failures = 0
  /\ _stats = StatsInit /\ statsMutex = FALSE
  /\ client = ClosedSocket /\ sink = <<>>
  /\ pc = "none" /\ w = LocalsInit
  /\ opc = "idle" /\ now = 0 /\ h = HistoryInit
  /\ config = ConstructedConfig /\ gnssOutput = "null" /\ _taskHandle = "null"
  /\ mutexOwner = "none" /\ reader = ReaderIdle
  /\ ctl = 0 /\ net = NetIdle(Budget(0, 0, 0, StatsClock, {})) /\ sketch = SketchIdle(0)

NextStats ==
  \/ Begin \/ StartTask \/ Tick
  \/ StatsAccumulate \/ WorkerEnter \/ WorkerTake \/ FlushTimeout \/ WorkerWrite
  \/ WorkerGive
  \/ ObserverEnter \/ ObserverSection
  \/ GetStatsTake \/ GetStatsCopy \/ GetStatsGive \/ GetStatsReturn

SpecStats == InitStats /\ [][NextStats]_vars

(***************************************************************************)
(* RtcmParser on its own: a byte stream fed byte by byte.                  *)
(***************************************************************************)
\* The bytes that come ahead of the frame: a preamble among them, or not.
PrefixBytes == {0, 65, Preamble}
Prefixes == {<<>>} \cup UNION {[1..n -> PrefixBytes] : n \in 1..MaxPrefix}

\* A parser as constructed, with a stream to be fed: some bytes and then one
\* well-formed frame, which starts at h.offset.
InitParser ==
  /\ _state = "DISCONNECTED" /\ _healthy = FALSE /\ _running = FALSE
  /\ lastHealth = 0 /\ lastAttempt = 0 /\ failures = 0
  /\ _stats = StatsInit /\ statsMutex = FALSE
  /\ sink = <<>> /\ pc = "none" /\ w = LocalsInit
  /\ opc = "idle" /\ now = 0
  /\ config = ConstructedConfig /\ gnssOutput = "null" /\ _taskHandle = "null"
  /\ mutexOwner = "none" /\ reader = ReaderIdle
  /\ ctl = 0 /\ net = NetIdle(Budget(0, 0, 0, 0, {})) /\ sketch = SketchIdle(0)
  /\ \E prefix \in Prefixes :
       /\ client = [conn |-> TRUE, rx |-> prefix \o GoodFrame]
       /\ h = [HistoryInit EXCEPT !.offset = Len(prefix)]

\* RtcmResult result = parser.feed(buffer[i]); a result with valid or
\* crcError set is an emitted one.
FeedByte ==
  /\ client.rx # <<>>
  /\ LET f == feed(w.parser, Head(client.rx)) IN
       /\ w' = [w EXCEPT !.parser = f.p]
       /\ h' = [h EXCEPT !.fed = @ + 1,
                         !.results = IF f.r.valid \/ f.r.crcError
                                     THEN Append(@, [at |-> h.fed + 1, r |-> f.r])
                                     ELSE @]
  /\ client' = [client EXCEPT !.rx = Tail(@)]
  /\ UNCHANGED <<_state, _healthy, _running, lastHealth, lastAttempt, failures,
                 _stats, statsMutex, sink, pc, opc, ctl, now, net,
                 config, gnssOutput, _taskHandle, mutexOwner, reader, sketch>>

NextParser == FeedByte

SpecParser == InitParser /\ [][NextParser]_vars

\* A parser as constructed with the bytes still to be fed to it; hist
\* describes the stream.
ParserWith(bytes, hist) ==
  /\ _state = "DISCONNECTED" /\ _healthy = FALSE /\ _running = FALSE
  /\ lastHealth = 0 /\ lastAttempt = 0 /\ failures = 0
  /\ _stats = StatsInit /\ statsMutex = FALSE
  /\ sink = <<>> /\ pc = "none" /\ w = LocalsInit
  /\ opc = "idle" /\ now = 0
  /\ config = ConstructedConfig /\ gnssOutput = "null" /\ _taskHandle = "null"
  /\ mutexOwner = "none" /\ reader = ReaderIdle
  /\ ctl = 0 /\ net = NetIdle(Budget(0, 0, 0, 0, {})) /\ sketch = SketchIdle(0)
  /\ client = [conn |-> TRUE, rx |-> bytes]
  /\ h = hist

\* The frames fed with one byte altered: a two-byte and a three-byte payload.
SampleFrames == {GoodFrame, Frame(TypedPayload(1077) \o <<Preamble>>)}
\* The bytes of frame f after its length: payload and CRC.
PayloadAndCrc(f) == 4..Len(f)
\* Frame f with byte k replaced by v.
Altered(f, k, v) == [f EXCEPT ![k] = v]

\* A parser in the Sync stage and a frame with one payload or CRC byte
\* altered to any other value; h.altered is the position of that byte.
InitAltered ==
  \E f \in SampleFrames : \E k \in PayloadAndCrc(f) : \E v \in (0..255) \ {f[k]} :
    ParserWith(Altered(f, k, v), [HistoryInit EXCEPT !.altered = k])

SpecAltered == InitAltered /\ [][NextParser]_vars

\* Payloads of every length from 0 to MaxPayloadLen.
MaxPayloadLen == 3
Payloads == {<<>>} \cup UNION {[1..n -> PrefixBytes] : n \in 1..MaxPayloadLen}

\* A parser in the Sync stage, one well-formed frame whose payload has
\* h.payloadLen bytes, and the byte that follows the frame.
InitLengths ==
  \E payload \in Payloads : \E following \in PrefixBytes :
    ParserWith(Frame(payload) \o <<following>>,
               [HistoryInit EXCEPT !.payloadLen = Len(payload),
                                   !.stream = Frame(payload) \o <<following>>])

SpecLengths == InitLengths /\ [][NextParser]_vars

\* Bytes that set and clear the length bits, and the preamble.
LengthBytes == {0, 3, 255, Preamble}
MaxLeading == 3
MaxResets == 1
Leading == {<<>>} \cup UNION {[1..n -> LengthBytes] : n \in 1..MaxLeading}
\* A frame whose payload is longer than the 12-byte payload prefix buffer.
LongFrame == Frame(TypedPayload(1005) \o <<1, 2, 3, 4, 5, 6, 7, 8, 9, 10, 11>>)

\* A parser as constructed, and a stream of any leading bytes and then a
\* frame, well-formed or with its CRC altered.
InitAnyInput ==
  \E lead \in Leading : \E f \in {GoodFrame, BadFrame, LongFrame} :
    ParserWith(lead \o f, [HistoryInit EXCEPT !.offset = Len(lead),
                                               !.stream = lead \o f])

\* parser.reset(), called between two calls of feed().
ResetParser ==
  /\ h.parserResets < MaxResets /\ h.fed > 0
  /\ w' = [w EXCEPT !.parser = ParserReset(@)]
  /\ h' = [h EXCEPT !.parserResets = @ + 1]
  /\ UNCHANGED <<_state, _healthy, _running, lastHealth, lastAttempt, failures,
                 _stats, statsMutex, client, sink, pc, opc, ctl, now, net,
                 config, gnssOutput, _taskHandle, mutexOwner, reader, sketch>>

NextAnyInput == FeedByte \/ ResetParser

SpecAnyInput == InitAnyInput /\ [][NextAnyInput]_vars

\* A frame whose payload holds the bytes D3 00 01 after the message type.
PreambleInPayload == Frame(TypedPayload(1005) \o <<Preamble, 0, 1>>)
\* The frames a caster repeats after the injected bytes.
StreamFrames == {GoodFrame, PreambleInPayload}
MaxFollowing == 3
RECURSIVE Repeated(_, _)
Repeated(f, n) == IF n = 0 THEN <<>> ELSE f \o Repeated(f, n - 1)

\* A parser in the Sync stage, bytes injected ahead of the stream, and then
\* well-formed frames back to back; the first starts at h.offset.
InitJunk ==
  \E prefix \in Prefixes : \E f \in StreamFrames :
    ParserWith(prefix \o Repeated(f, MaxFollowing),
               [HistoryInit EXCEPT !.offset = Len(prefix)])

SpecJunk == InitJunk /\ [][NextParser]_vars

(***************************************************************************)
(* The Streaming branch on its own: a byte stream that reaches the worker  *)
(* in reads of any sizes.                                                  *)
(***************************************************************************)
MaxStreamFrames == 3
\* The chunks of c one after the other.
RECURSIVE Flatten(_)
Flatten(c) == IF c = <<>> THEN <<>> ELSE Head(c) \o Flatten(Tail(c))
\* What the caster sends: well-formed and corrupted frames back to back.
Streams ==
  UNION {{Flatten(c) : c \in [1..n -> Chunks]} : n \in 1..MaxStreamFrames}

\* The results with a flag set that the validation loop gets from feed() for
\* bytes, which follow `at` bytes already read; none once the loop has
\* promoted the stream.
RECURSIVE Emitted(_, _, _)
\* The result r of the byte at `at`, put ahead of those of the bytes after it.
EmittedNext(r, l1, rest, at) ==
  IF r.valid \/ r.crcError
  THEN <<[at |-> at, r |-> r]>> \o Emitted(l1, rest, at)
  ELSE Emitted(l1, rest, at)

Emitted(l, bytes, at) ==
  IF bytes = <<>> \/ l.phase # "VALIDATION" THEN <<>>
  ELSE EmittedNext(feed(l.parser, Head(bytes)).r,
                   PhaseLogic(l, <<Head(bytes)>>, 0, 0).l, Tail(bytes), at + 1)

\* Where the last of the results e was emitted.
LastEmittedAt(e) == e[Len(e)].at

\* The byte of the stream at which the validation loop promotes it (0: not
\* within bytes), for a loop entered with locals l after `at` bytes: the
\* loop leaves at the result that promotes.
PromotionPoint(l, bytes, at) ==
  IF l.phase = "VALIDATION" /\ PhaseLogic(l, bytes, 0, 0).l.phase = "STREAMING"
  THEN LastEmittedAt(Emitted(l, bytes, at))
  ELSE 0

\* A worker that has just entered Streaming (taskLoop, connect success), the
\* whole stream on its way, and a buffer that could take it in one read.
InitSegments ==
  /\ _state = "STREAMING" /\ _healthy = FALSE /\ _running = TRUE
  /\ lastHealth = 0 /\ lastAttempt = 0 /\ failures = 0
  /\ _stats = StatsInit /\ statsMutex = TRUE
  /\ sink = <<>> /\ pc = "read" /\ w = ValidationLocals(LocalsInit)
  /\ opc = "idle" /\ now = 0
  /\ gnssOutput = "serial" /\ _taskHandle = "task"
  /\ mutexOwner = "none" /\ reader = ReaderIdle
  /\ ctl = 0 /\ net = NetIdle(Budget(0, 0, 0, 0, {})) /\ sketch = SketchIdle(0)
  /\ \E stream \in Streams :
       /\ client = [conn |-> TRUE, rx |-> stream]
       /\ config = [SessionConfig EXCEPT !.bufferSize = Len(stream)]
       /\ h = [HistoryInit EXCEPT !.stream = stream]

\* int n = client.read(buffer, config.bufferSize) returning the n bytes that
\* have arrived, gnssOutput->write(buffer, n), and the phase logic on them.
ReadSegment ==
  /\ pc = "read" /\ client.rx # <<>>
  /\ \E n \in 1..Min(Len(client.rx), config.bufferSize) :
       LET bytes == Take(client.rx, n)
           a == PhaseLogic(CarriedOver(w), bytes, now, lastHealth)
       IN /\ w' = [a.l EXCEPT !.localBytes = @ + n]
          /\ client' = [client EXCEPT !.rx = Drop(client.rx, n)]
          /\ sink' = IF gnssOutput # "null" THEN Written(sink, bytes) ELSE sink
          /\ lastHealth' = a.lastHealth
          /\ _healthy' = IF a.healthy THEN TRUE ELSE _healthy
          /\ h' = [h EXCEPT !.readLog = @ \o bytes, !.fed = @ + n,
                            !.split = @ \/ (h.fed + n) % Len(GoodFrame) # 0,
                            !.results = @ \o Emitted(CarriedOver(w), bytes, h.fed),
                            !.promotedAt =
                               IF w.phase = "VALIDATION"
                               THEN PromotionPoint(CarriedOver(w), bytes, h.fed)
                               ELSE @,
                            !.validationEnd =
                               IF w.phase = "VALIDATION" THEN h.fed + n ELSE @]
  /\ UNCHANGED <<_state, _running, lastAttempt, failures, _stats, statsMutex,
                 pc, opc, ctl, now, net,
                 config, gnssOutput, _taskHandle, mutexOwner, reader, sketch>>

NextSegments == ReadSegment

SpecSegments == InitSegments /\ [][NextSegments]_vars

(***************************************************************************)
(* A session whose retry delay is longer than the wait of stopTask(), as   *)
(* it is with the defaults (30000 ms and 5000 ms): the sketch stops the    *)
(* task and starts it again.                                               *)
(***************************************************************************)
PatientConfig == [SessionConfig EXCEPT !.retryDelayMs = RetryDelayMs + StopWaitMs]
\* Time for the retry delay, the wait of stopTask() and a restart.
RestartClock == PatientConfig.retryDelayMs + StopWaitMs

InitRestart ==
  InitIn({[Budget(0, 1, 0, RestartClock, {"close", "ICY200", "401"})
             EXCEPT !.calls = MaxCalls]})

\* begin(cfg, Serial), the sketch's one call of it.
BeginPatient ==
  /\ sketch.pc = "idle" /\ _taskHandle = "null" /\ pc = "none" /\ opc = "idle"
  /\ ~statsMutex
  /\ sketch' = sketch
  /\ BeginWith(PatientConfig, "serial")

\* The worker's steps within that time: it neither locks out nor finds a
\* zombie stream.
WorkerEarly ==
  \/ TaskLoopTop \/ TaskLoopExit \/ ExitFlush \/ ExitTask \/ HygieneTest \/ HygieneClose
  \/ DisconnectedTest \/ RetryWindow \/ LockoutTest
  \/ EnterConnecting \/ ConnectingTest \/ StampAttempt
  \/ TcpConnect \/ SendRequest \/ AwaitResponse \/ ReadStatus \/ DrainHeaders
  \/ VersionAccepted \/ ConnectError
  \/ SuccessClearFailures \/ SuccessResetHealth \/ SuccessEnterStreaming
  \/ SuccessCommitStats \/ FailureLoad \/ FailureStore \/ FailureDisconnected
  \/ WorkerDisconnectSocket \/ WorkerDisconnectHealthy \/ WorkerDisconnectState
  \/ WorkerDisconnectVersion
  \/ StreamingTest \/ SocketTest \/ ConnectionLost \/ ReadSocket \/ Forward
  \/ Validate \/ ZombieTest \/ LockedOutTest \/ StatsFlush

NextRestart ==
  BeginPatient \/ StartTask \/ StopTask \/ StopTaskWait \/ WorkerEarly \/ Caster \/ Tick

SpecRestart == InitRestart /\ [][NextRestart]_vars

(***************************************************************************)
(* An established connection on which the caster keeps sending well-formed *)
(* frames: the streaming branch of taskLoop through the Validation and the *)
(* Steady phase, for configurations validateConfig accepts that differ in  *)
(* passiveSampleMs and in bufferSize.                                      *)
(***************************************************************************)
SteadyClock == 6
\* passiveSampleMs below and above healthTimeoutMs; a buffer that takes half a
\* frame and one that takes a whole frame.
SteadyConfigs ==
  { [SessionConfig EXCEPT !.passiveSampleMs = p, !.bufferSize = b] :
      p \in {PassiveSampleMs, HealthTimeoutMs + 1},
      b \in {BufferSize, Len(GoodFrame)} }

\* The worker has just entered Streaming (taskLoop, connect success) at time
\* 0 and is at the top of its loop.
InitSteady ==
  /\ _state = "STREAMING" /\ _healthy = FALSE /\ _running = TRUE
  /\ lastHealth = 0 /\ lastAttempt = 0 /\ failures = 0
  /\ _stats = [StatsInit EXCEPT !.reconnects = 1, !.protocolVersion = 2]
  /\ statsMutex = TRUE
  /\ sink = <<>> /\ pc = "loop" /\ w = ValidationLocals(LocalsInit)
  /\ opc = "idle" /\ now = 0
  /\ gnssOutput = "serial" /\ _taskHandle = "task"
  /\ mutexOwner = "none" /\ reader = ReaderIdle
  /\ ctl = 0 /\ net = [NetIdle(Budget(0, 0, 0, SteadyClock, {})) EXCEPT !.stage = "stream"]
  /\ sketch = SketchIdle(0)
  /\ client = [conn |-> TRUE, rx |-> <<>>]
  /\ config \in SteadyConfigs
  /\ validateConfig(config)
  /\ h = HistoryInit

\* The caster sends the next well-formed frame once the last one was read.
CasterKeepsStreaming ==
  /\ Connected(client) /\ client.rx = <<>> /\ h.delivered < now + 1
  /\ client' = [client EXCEPT !.rx = GoodFrame]
  /\ h' = [h EXCEPT !.delivered = now + 1]
  /\ UNCHANGED <<_state, _healthy, _running, lastHealth, lastAttempt, failures,
                 _stats, statsMutex, sink, pc, w, opc, ctl, now, net,
                 config, gnssOutput, _taskHandle, mutexOwner, reader, sketch>>

\* millis() advances while the worker is suspended, as long as the gap since
\* the caster's last frame stays shorter than healthTimeoutMs.
TickSteady ==
  /\ Connected(client) /\ h.delivered > 0
  /\ (now + 1) - (h.delivered - 1) < config.healthTimeoutMs
  /\ Tick

\* The passes of taskLoop over an established connection.
WorkerSteady ==
  \/ TaskLoopTop \/ HygieneTest \/ DisconnectedTest \/ ConnectingTest
  \/ StreamingTest \/ SocketTest \/ ReadSocket \/ Forward \/ Validate
  \/ ZombieTest \/ ZombieError
  \/ WorkerDisconnectSocket \/ WorkerDisconnectHealthy \/ WorkerDisconnectState
  \/ WorkerDisconnectVersion \/ LockedOutTest \/ StatsFlush

NextSteady == WorkerSteady \/ CasterKeepsStreaming \/ TickSteady

SpecSteady == InitSteady /\ [][NextSteady]_vars

(***************************************************************************)
(* Properties.                                                             *)
(***************************************************************************)
\* Every handshake so far has failed and no control call was made.
Unattended == ~h.controlled /\ ~h.okSeen

\* C1: with every handshake failing and no control call, the worker calls
\* connectCaster exactly maxTries times and then goes from DISCONNECTED to
\* LOCKED_OUT: it is never LOCKED_OUT with fewer attempts made, it never
\* makes attempt maxTries + 1, and it enters LOCKED_OUT from DISCONNECTED.
C1_LockoutAfterMaxTries ==
  /\ [](Unattended =>
          /\ h.attempts <= config.maxTries
          /\ (_state = "LOCKED_OUT" => h.attempts = config.maxTries)
          /\ (h.attempts = config.maxTries /\ pc = "lockchk" => failures = config.maxTries))
  /\ [][Unattended' /\ _state # "LOCKED_OUT" /\ _state' = "LOCKED_OUT"
          => _state = "DISCONNECTED" /\ h.attempts = config.maxTries]_vars

\* The worker has locked itself out after maxTries failed attempts.
C1_Witness ==
  Unattended /\ _state = "LOCKED_OUT" /\ h.attempts = config.maxTries

\* A step of the worker, and a step of the observer inside a control call.
WorkerStep == <<pc, w>>' # <<pc, w>>

\* C2: while _state is LOCKED_OUT the worker opens no TCP connection, writes
\* no request and does not change _state.
C2_LockedOutIsQuiet ==
  [][_state = "LOCKED_OUT" /\ WorkerStep =>
       /\ pc # "tcp"
       /\ ~(net.stage # "request" /\ net'.stage = "request")
       /\ _state' = _state]_vars

\* C3: when every response so far was a 401 status line and no control call
\* was made, the lastError read in LOCKED_OUT is HTTP_AUTH_FAILED.
C3_AuthErrorReadableInLockout ==
  Unattended /\ h.only401 /\ _state = "LOCKED_OUT"
    => _stats.lastError = "HTTP_AUTH_FAILED"

\* C4: once stop() has returned and no other control call has followed, the
\* engine is not STREAMING and failures is not below maxTries.
C4_StopIsFinal ==
  h.stopped => _state # "STREAMING" /\ failures >= config.maxTries

\* A statement of reset() is executed.
ResetStep == opc \in {"reset.f", "reset.s", "reset.e"} /\ opc' # opc

\* C5: reset(), in any state, writes failures = 0, _state = DISCONNECTED and
\* lastError = NONE with an empty message, and nothing else: the other
\* statistics, lastAttempt, the health flags and the socket are left alone.
C5_ResetWritesOnlyItsThree ==
  [][ResetStep =>
       /\ opc = "reset.f" => failures' = 0 /\ UNCHANGED <<_state, _stats>>
       /\ opc = "reset.s" => _state' = "DISCONNECTED" /\ UNCHANGED <<failures, _stats>>
       /\ opc = "reset.e" =>
            /\ opc' = "idle"
            /\ _stats' = [_stats EXCEPT !.lastError = "NONE",
                                        !.lastErrorMessage = [text |-> "", arg |-> 0]]
            /\ UNCHANGED <<failures, _state>>
       /\ UNCHANGED <<lastAttempt, lastHealth, _healthy, _running, client, net,
                      sink>>]_vars

\* reset() has written failures and _state and is about to clear an error
\* and its message, with statistics counted and the retry stamp set.
C5_Witness ==
  /\ opc = "reset.e" /\ failures = 0 /\ _state = "DISCONNECTED"
  /\ _stats.lastError # "NONE" /\ _stats.lastErrorMessage.text # ""
  /\ _stats.reconnects > 0 /\ lastAttempt > 0
\* The worker is at the top of its loop in LOCKED_OUT and no control call is
\* in progress: without a further control call it stays there, as no branch
\* of the loop writes _state when it reads LOCKED_OUT.
ParkedInLockout == _state = "LOCKED_OUT" /\ pc = "loop" /\ opc = "idle"

\* C6: after a reset() called in LOCKED_OUT, with no control call after it,
\* the worker is not left parked in LOCKED_OUT before its next attempt.
C6_ResetRecoversLockout ==
  h.afterReset => ~ParkedInLockout

\* C7: after reconnect() has returned, with failures < maxTries, the worker's
\* next evaluation of the retry window does not make it wait.
C7_ReconnectSkipsRetryWindow ==
  [][pc = "retry" /\ pc' # "retry" /\ h.afterReconnect
       /\ failures < config.maxTries => pc' = "lockchk"]_vars
\* C8: _state = STREAMING with _healthy = true implies that at least
\* requiredValidFrames CRC-valid frames were counted since _state last
\* became STREAMING, whatever control calls interleave.
C8_HealthyMeansValidated ==
  _state = "STREAMING" /\ _healthy => h.connFrames >= config.requiredValidFrames

\* A validated stream, reached although a control call was made.
C8_Witness ==
  /\ _state = "STREAMING" /\ _healthy /\ h.controlled
  /\ h.connFrames = config.requiredValidFrames
\* The bytes read from the socket in the STREAMING branch and not yet written.
Unwritten == IF pc = "fwd" THEN w.buffer ELSE <<>>

TextBytes ==
  {CR, LF} \cup {HeaderLine[i] : i \in DOMAIN HeaderLine}
    \cup UNION {{StatusLine(k)[i] : i \in DOMAIN StatusLine(k)} : k \in StatusKinds}
FrameBytes == UNION {{c[i] : i \in DOMAIN c} : c \in Chunks}

EndOfReadPass == h.readPass /\ pc \in {"lock", "flush"}

\* C11: a STREAMING pass that reads the socket, in either phase and whether or
\* not the read returned bytes, and in which now - lastHealth exceeds
\* healthTimeoutMs, ends with lastError = ZOMBIE_STREAM_DETECTED, the socket
\* closed, _healthy false and _state DISCONNECTED (no control call racing it);
\* no step of the worker in such a pass changes failures.
C11_ZombieDeclaredInSamePass ==
  /\ [](~h.controlled /\ EndOfReadPass /\ now - lastHealth > config.healthTimeoutMs
         => /\ _stats.lastError = "ZOMBIE_STREAM_DETECTED"
            /\ ~Connected(client)
            /\ ~_healthy
            /\ _state = "DISCONNECTED")
  /\ [][h.readPass /\ WorkerStep => failures' = failures]_vars

\* A steady-phase pass whose read returned nothing has declared the zombie.
C11_Witness ==
  /\ ~h.controlled /\ EndOfReadPass /\ w.phase = "STREAMING"
  /\ now - lastHealth > config.healthTimeoutMs
  /\ h.readLog = sink /\ client.rx = <<>>
  /\ _stats.lastError = "ZOMBIE_STREAM_DETECTED" /\ _state = "DISCONNECTED"
  /\ failures = 0

\* The number of whole frames in the bytes read that equal frame f (the
\* caster sends frames of one length, back to back).
FramesRead(log, f) ==
  Cardinality({i \in 0..((Len(log) \div Len(f)) - 1) :
                 SubSeq(log, i * Len(f) + 1, (i + 1) * Len(f)) = f})

\* Two well-formed frames and then one with a corrupted CRC.
EveryThirdCorrupted == GoodFrame \o GoodFrame \o BadFrame

\* The first connection is up, no control call was made, and every byte read
\* so far has been through the phase logic.
FirstConnectionSettled ==
  /\ ~h.controlled /\ h.attempts = 1 /\ _state = "STREAMING" /\ Connected(client)
  /\ pc \notin {"fwd", "parse"}

\* C12: on a connection that stays up and streams frames of which every third
\* has a corrupted CRC, crcErrors (registry plus the accumulator not yet
\* flushed) is the number of corrupted frames read and totalFrames the number
\* of uncorrupted frames read, in the steady phase as in validation, and
\* _healthy is true from promotion on.
C12_EveryFrameCounted ==
  FirstConnectionSettled /\ Take(EveryThirdCorrupted, Len(h.readLog)) = h.readLog
    => /\ _stats.crcErrors + w.localCrcErrors = FramesRead(h.readLog, BadFrame)
       /\ _stats.totalFrames + w.localFrames = FramesRead(h.readLog, GoodFrame)
       /\ (w.phase = "STREAMING" => _healthy)

\* The worker, or the observer, is between the take and the give of a
\* critical section.
WorkerInSection == pc \in Sections /\ w.tmp > 0
ObserverInSection == opc \in {"reset.e.1", "reset.e.2", "stop.d4.1", "give"}

\* The message each error code is committed with.
MessageFor(err) ==
  IF err = "NONE" THEN NoMessage
  ELSE (CHOOSE e \in ErrorPairs : e.err = err).msg

\* C13: the snapshot getStats() returns is the registry as it was when the
\* call took the mutex, an instant at which no critical section of the worker
\* or of reset()/disconnect() was open, and the registry does not move while
\* it is copied; so lastError and lastErrorMessage of a snapshot come from one
\* commit and the bytes, frames and crcErrors of a flush appear together.
C13_SnapshotIsOneInstant ==
  /\ reader.pc = "return" => reader.snapshot = h.atTake
  /\ reader.pc \in {"copy", "give"} =>
       _stats = h.atTake /\ ~WorkerInSection /\ ~ObserverInSection
  /\ reader.pc = "return" =>
       /\ reader.snapshot.lastErrorMessage = MessageFor(reader.snapshot.lastError)
       /\ reader.snapshot.crcErrors = reader.snapshot.totalFrames
       /\ reader.snapshot.bytesReceived = config.bufferSize * reader.snapshot.totalFrames

\* A snapshot with a flush, a connection and an error in it is returned
\* while the worker waits at the take of its next flush.
C13_Witness ==
  /\ reader.pc = "return" /\ reader.snapshot.totalFrames > 0
  /\ reader.snapshot.reconnects > 0 /\ reader.snapshot.lastError # "NONE"
  /\ pc = "sec.flush" /\ w.tmp = 0 /\ opc = "reset.e"

\* C14: once begin() has run, no step decreases totalFrames, crcErrors,
\* bytesReceived, reconnects or totalUptime in the registry, so no getStats()
\* snapshot shows less than an earlier one.
C14_CountersNeverDecrease ==
  [][statsMutex =>
       /\ _stats'.totalFrames >= _stats.totalFrames
       /\ _stats'.crcErrors >= _stats.crcErrors
       /\ _stats'.bytesReceived >= _stats.bytesReceived
       /\ _stats'.reconnects >= _stats.reconnects
       /\ _stats'.totalUptime >= _stats.totalUptime]_vars

\* C15: a begin() whose configuration validateConfig rejects returns false
\* and leaves the stored configuration, the sink reference, the state, the
\* healthy flag, the failure counter, the running flag and the statistics
\* record as they were.
C15_RejectedBeginChangesNothing ==
  [][h'.begin.n # h.begin.n /\ ~validateConfig(h'.begin.cfg)
       => /\ ~h'.begin.ok
          /\ UNCHANGED <<config, gnssOutput, _state, _healthy, failures,
                         _running, _stats>>]_vars

\* A begin() was rejected after a session that had connected: the session's
\* configuration, sink and statistics are still in place.
C15_Witness ==
  /\ h.begin.n > 1 /\ ~h.begin.ok /\ h.begin.gnss = "usb"
  /\ config = SessionConfig /\ gnssOutput = "serial" /\ _stats.reconnects > 0

\* The invariants of the configuration the claim lists.
ListedInvariants(cfg) ==
  /\ cfg.host # "" /\ cfg.mount # "" /\ cfg.maxTries # 0
  /\ cfg.requiredValidFrames # 0 /\ cfg.bufferSize # 0 /\ cfg.connectTimeoutMs # 0

\* C16: begin() rejects every configuration with an empty host, an empty
\* mount, or maxTries, requiredValidFrames, bufferSize or connectTimeoutMs
\* zero: the last begin() did not accept such a configuration, and no worker
\* runs with one.
C16_InvalidConfigNeverAccepted ==
  /\ h.begin.ok => ListedInvariants(h.begin.cfg)
  /\ _taskHandle # "null" => ListedInvariants(config)

\* C17: at most one worker exists at any time, and it exists exactly while
\* _taskHandle is set; a startTask() called while a worker exists returns
\* false and changes nothing; a startTask() that creates a worker leaves
\* _running set with the worker at the top of taskLoop, its loop test
\* still to come, and is made only while no worker exists.
C17_AtMostOneWorker ==
  /\ [](h.tasks <= 1 /\ (h.tasks = 1 <=> _taskHandle # "null")
                     /\ (pc # "none" <=> _taskHandle # "null"))
  /\ [][StartTask /\ _taskHandle # "null"
         => /\ h'.startTask = "refused"
            /\ UNCHANGED <<_taskHandle, pc, w, _running, _state, _healthy,
                           failures, _stats, client, sink>>]_vars
  /\ [][h'.tasks > h.tasks
         => _taskHandle = "null" /\ _running' /\ pc' = "loop" /\ w' = LocalsInit]_vars

\* After stopTask() returned with the first worker gone, a second
\* startTask() created a worker, which is past its first loop test.
C17_Witness ==
  /\ h.stopTask = "returned" /\ h.startTask = "spawned" /\ sketch.calls = 0
  /\ h.tasks = 1 /\ _running /\ pc \notin {"none", "loop"}

RECURSIVE GoodFrames(_)
GoodFrames(n) == IF n = 0 THEN <<>> ELSE GoodFrame \o GoodFrames(n - 1)

\* The happy path so far: a session with the session's configuration, no
\* control call and no stopTask(), the first connectCaster call with its
\* Rev2 try not failed, no error committed, and every byte read from the
\* socket a byte of a stream of well-formed frames.
HappyPath ==
  /\ config = SessionConfig /\ ~h.controlled /\ h.attempts <= 1 /\ ~h.rev2Failed
  /\ _stats.lastError = "NONE"
  /\ h.readLog = Take(GoodFrames(MaxChunks + 2), Len(h.readLog))

\* The whole frames the worker has read.
WholeFramesRead == Len(h.readLog) \div Len(GoodFrame)

\* The caster has stopped streaming before it sent requiredValidFrames
\* frames, or has closed the connection.
StreamEnded ==
  \/ /\ net.chunks = 0
     /\ (IF net.stage = "stream" THEN Len(h.readLog) + Len(client.rx) ELSE 0)
          < config.requiredValidFrames * Len(GoodFrame)
  \/ h.attempts = 1 /\ pc # "tcp" /\ ~Connected(client)

ValidForTheFrame ==
  {i \in DOMAIN h.results :
     h.results[i].r.valid /\ h.results[i].at = h.offset + Len(GoodFrame)}

\* C20: whatever bytes precede a well-formed frame, once the stream has been
\* fed byte by byte exactly one result with valid = true has been emitted for
\* the frame, and it carries the frame's message type and payload length.
C20_FrameAtAnyOffsetIsEmitted ==
  client.rx = <<>> /\ h.fed = h.offset + Len(GoodFrame)
    => /\ Cardinality(ValidForTheFrame) = 1
       /\ \A i \in ValidForTheFrame :
            /\ h.results[i].r.messageType = 1005
            /\ h.results[i].r.length = Len(TypedPayload(1005))


\* The result returned for an altered frame of n bytes.
CrcErrorAt(n) ==
  [at |-> n, r |-> [valid |-> FALSE, crcError |-> TRUE, messageType |-> 0,
                    length |-> n - 6]]

CrcErrorsBeforeValid ==
  {i \in DOMAIN h.results :
     /\ h.results[i].r.crcError
     /\ \A j \in 1..i : ~h.results[j].r.valid}

\* C22: whatever bytes are injected ahead of a stream of well-formed frames, a
\* stray 0xD3 among them or not, the parser emits at most one result with
\* crcError = true before it emits a valid result for a following frame.
C22_ResyncWithinOneCrcError == Cardinality(CrcErrorsBeforeValid) <= 1


\* What one read holding all the bytes read so far leaves behind: the loop's
\* locals and flags, the results it got, and where it promoted the stream.
SingleRead ==
  LET all == SubSeq(h.stream, 1, h.fed)
      l == ValidationLocals(LocalsInit)
  IN [a |-> PhaseLogic(l, all, 0, 0), results |-> Emitted(l, all, 0),
      promotedAt |-> PromotionPoint(l, all, 0), bytes |-> all]

\* C23: however the stream is split into reads, the parser results, the
\* counts of valid frames and CRC errors, the phase, the health flag and the
\* byte at which the stream was promoted are those of one read holding the
\* same bytes; so are the parser's state and the bytes forwarded.
C23_SegmentationIndependence ==
  h.fed > 0 =>
    LET one == SingleRead IN
    /\ h.results = one.results
    /\ w.validFrames = one.a.l.validFrames
    /\ w.localFrames = one.a.l.localFrames
    /\ w.localCrcErrors = one.a.l.localCrcErrors
    /\ w.localLastMsgType = one.a.l.localLastMsgType
    /\ w.phase = one.a.l.phase
    /\ w.parser = one.a.l.parser
    /\ _healthy = one.a.healthy
    /\ h.promotedAt = one.promotedAt
    /\ sink = one.bytes
\* Three frames, the first corrupted, in reads that ended inside a frame: one
\* CRC error, and the promotion at the last byte.
C23_Witness ==
  /\ h.split /\ client.rx = <<>> /\ h.fed = 3 * Len(GoodFrame)
  /\ w.localCrcErrors = 1 /\ w.phase = "STREAMING" /\ h.promotedAt = h.fed
  /\ Len(h.results) = 3


\* The worker is inside connectCaster.
InConnectCaster == pc \in {"tcp", "req", "wait", "status", "drain", "vok", "cerr"}
\* The worker is on the success path of the Connecting branch.
OnSuccessPath == pc \in {"ok1", "ok2", "ok3", "ok4"}

\* C24: in one attempt the Rev2 try comes first and a Rev1 try is made at
\* most once, only after the Rev2 try has failed and with the socket closed;
\* an accepted try sets protocolVersion to its version, no error is committed
\* on the way to a success, and without a control call the success leaves
\* failures = 0, lastError = NONE and reconnects one higher.
C24_Rev2ThenRev1Once ==
  /\ [](/\ h.tries \in {<<>>, <<2>>, <<2, 1>>}
        /\ (InConnectCaster /\ h.tries = <<2, 1>> => w.err # "NONE")
        /\ (pc = "tcp" /\ h.tries = <<2>> => ~Connected(client) /\ ~w.useRev2)
        /\ (pc = "tcp" => h.tries \in {<<>>, <<2>>})
        /\ (pc = "cerr" => h.tries = <<2, 1>>))
  /\ [][/\ (pc = "vok" /\ pc' = "ok1"
              => _stats'.protocolVersion = h.tries[Len(h.tries)])
        /\ ((InConnectCaster \/ OnSuccessPath) /\ pc # "cerr" /\ pc' # pc
              => _stats'.lastError \in {_stats.lastError, "NONE"})
        /\ (pc = "ok4" /\ pc' = "strm" /\ ~h.controlled
              => /\ failures' = 0 /\ _stats'.lastError = "NONE"
                 /\ _stats'.reconnects = _stats.reconnects + 1
                 /\ _stats'.protocolVersion = h.tries[Len(h.tries)])]_vars
\* A connection accepted by the Rev1 try after the Rev2 try failed.
C24_Witness ==
  /\ ~h.controlled /\ pc = "strm" /\ _state = "STREAMING" /\ h.tries = <<2, 1>>
  /\ _stats.protocolVersion = 1 /\ failures = 0 /\ _stats.reconnects = 1
  /\ _stats.lastError = "NONE"


\* C25: _state becomes LOCKED_OUT only by the worker's write at the end of
\* the lockout path of the DISCONNECTED branch, or by the last statement of
\* stop(); and the worker is on that path only after its test in the
\* DISCONNECTED branch found failures >= maxTries.
C25_OnlyLockoutOrStopLocksOut ==
  /\ [][_state # "LOCKED_OUT" /\ _state' = "LOCKED_OUT"
          => \/ pc = "lockSet" /\ pc' = "loop" /\ opc' = opc
             \/ opc = "stop.s" /\ opc' = "idle" /\ pc' = pc]_vars
  /\ [][pc' # pc /\ pc' = "lockSet" => pc = "lockErr"]_vars
  /\ [][pc' # pc /\ pc' = "lockErr"
          => pc = "lockchk" /\ failures >= config.maxTries]_vars
  /\ [][pc' # pc /\ pc' = "lockchk" => pc = "retry"]_vars
  /\ [][pc' # pc /\ pc' = "retry" => pc = "disc" /\ _state = "DISCONNECTED"]_vars
\* The worker has locked out on failures >= maxTries in a run with control
\* calls, the last of which was not a stop().
C25_Witness ==
  /\ _state = "LOCKED_OUT" /\ pc = "loop" /\ h.controlled /\ ~h.stopped
  /\ opc = "idle" /\ ctl = 0 /\ failures >= config.maxTries


\* C26: an attempt that follows another one with no reconnect() called or
\* returning in between is not stamped less than retryDelayMs after that one
\* was.
C26_AttemptsAreRetryDelayApart ==
  [][pc = "stamp" /\ pc' = "tcp" /\ h.attempts > 0 /\ ~h.reconnected
       => now - h.stamped >= config.retryDelayMs]_vars


C28_StreamingBeforeFirstByte ==
  /\ [][sink' # sink => h.entered /\ pc = "fwd"]_vars
  /\ [][~h.entered /\ h'.entered
          => _state' = "STREAMING" /\ sink' = sink /\ client'.rx = client.rx]_vars
\* The first bytes of a connection have been forwarded.
C28_Witness ==
  /\ h.entered /\ sink = GoodFrame /\ h.attempts = 1 /\ _state = "STREAMING"


\* The bytes the validation loop has passed to feed(): all those read in the
\* Validation phase when the loop has not promoted the stream, else those up
\* to the byte at which it did and left.
Parsed == IF h.promotedAt # 0 THEN h.promotedAt ELSE h.validationEnd

\* C29: every byte of a read made in the Validation phase (those up to
\* h.validationEnd) has been written to the sink and fed to the parser, the
\* bytes that follow the frame completing validation in its read included.
C29_ForwardedAndParsed ==
  /\ SubSeq(sink, 1, h.validationEnd) = SubSeq(h.stream, 1, h.validationEnd)
  /\ Parsed = h.validationEnd

\* The (lastError, lastErrorMessage) pairs connectCaster commits when both
\* tries of a handshake have failed.
HandshakeFailures ==
  { [err |-> "TCP_CONNECT_FAILED", text |-> "Cannot reach"],
    [err |-> "HTTP_TIMEOUT", text |-> "No response from"],
    [err |-> "HTTP_AUTH_FAILED", text |-> "Invalid credentials for"],
    [err |-> "HTTP_MOUNT_NOT_FOUND", text |-> "Mount not found"],
    [err |-> "HTTP_UNKNOWN_ERROR", text |-> "HTTP error"] }

\* The pair the registry holds.
CommittedPair ==
  [err |-> _stats.lastError, text |-> _stats.lastErrorMessage.text]

\* The worker writes _state = DISCONNECTED after a failed handshake.
HandshakeFailedWrite == pc = "f3" /\ pc' = "strm" /\ _state' = "DISCONNECTED"

\* The worker's disconnect() writes _state = DISCONNECTED after the socket
\* was found closed while Streaming.
SocketClosedWrite ==
  pc = "d3" /\ pc' = "d4" /\ w.dret = "loop" /\ _state' = "DISCONNECTED"

\* The worker's disconnect() writes _state = DISCONNECTED after a zombie
\* stream was detected.
ZombieWrite ==
  pc = "d3" /\ pc' = "d4" /\ w.dret = "lock" /\ _state' = "DISCONNECTED"

\* The worker writes _state = LOCKED_OUT after the retries were exhausted.
LockedOutWrite == pc = "lockSet" /\ pc' = "loop" /\ _state' = "LOCKED_OUT"

FailedSampleDue == pc = "parse" /\ SampleFails(w, w.buffer, now)

\* The steps that write _healthy = false: socket hygiene, disconnect() called
\* by the worker (socket closed, zombie, exit tail) or by stop()/reconnect(),
\* and begin().
HealthyClearedByTeardown ==
  \/ pc = "hyg3" /\ pc' = "disc"
  \/ pc = "d2" /\ pc' = "d3"
  \/ opc # opc' /\ opc \in {"stop.d2", "reconnect.d2"}
  \/ h'.begin.n # h.begin.n

\* _healthy = false on the success path of a handshake (taskLoop, CONNECTING).
HealthyClearedOnConnect == pc = "ok2" /\ pc' = "ok3"

HeldBytes ==
  IF pc \in {"none", "xend"} \/ w.dret = "xend" THEN 0 ELSE w.localBytes

\* C32: no byte counted by the worker is discarded: between begin() and the
\* next begin(), the bytes in the registry and those the worker still holds
\* in localBytes add up to the bytes forwarded to the sink (a read that is
\* counted and not yet forwarded aside).
C32_NoDeltaDiscarded ==
  (h.begin.n <= 1 /\ gnssOutput # "null" /\ pc # "fwd")
    => _stats.bytesReceived + HeldBytes = Len(sink)

\* C33: fed a frame whose length field is L from the Sync stage, the parser
\* is in the Payload stage until L payload bytes have followed the two
\* length bytes and in the Crc stage from then on; the frame's result comes
\* with input byte L + 6, and the byte after the frame is examined in Sync
\* (a preamble there starts the next frame).
C33_FrameOccupiesLengthPlusSix ==
  LET L == h.payloadLen IN
  /\ (h.fed >= 3 /\ h.fed < 3 + L) => w.parser.state = "PAYLOAD"
  /\ (h.fed >= 3 + L /\ h.fed < 6 + L) => w.parser.state = "CRC"
  /\ h.fed = 3 + L => w.parser.index = 0
  /\ h.fed < 6 + L => h.results = <<>>
  /\ h.fed >= 6 + L
       => /\ Len(h.results) = 1 /\ h.results[1].at = 6 + L
          /\ h.results[1].r.valid /\ h.results[1].r.length = L
  /\ h.fed = 6 + L => w.parser.state = "SYNC"
  /\ h.fed = 7 + L
       => w.parser.state = IF h.stream[7 + L] = Preamble THEN "LEN1" ELSE "SYNC"

\* C34: whenever _healthy is true, _state is STREAMING.
C34_HealthyImpliesStreaming == _healthy => _state = "STREAMING"

\* C35: failures never exceeds config.maxTries.
C35_FailuresAtMostMaxTries == failures <= config.maxTries

\* The worker calls client.connect (either try of connectCaster).
IssuesConnect == pc = "tcp" /\ h'.tries # h.tries

\* C36: as long as stopTask() has not been called, the worker calls
\* client.connect only when no socket is open, and a socket is opened by
\* that call only.
C36_OneEndpoint ==
  /\ [][IssuesConnect /\ h.stopTask = "" => ~Connected(client)]_vars
  /\ [][~Connected(client) /\ Connected(client') => IssuesConnect]_vars

\* C37: on a connection where the caster keeps delivering well-formed frames
\* with gaps shorter than healthTimeoutMs, under a configuration accepted by
\* validateConfig, the zombie test never fires: the worker never reaches the
\* setError(ZOMBIE_STREAM_DETECTED) of the streaming branch.
C37_NeverZombieWhileFramesArrive ==
  validateConfig(config) => pc # "zerr"

\* A statement of the worker's teardown of an established connection: the
\* setError of the socket-closed or of the zombie branch, or a statement of
\* the disconnect() that follows it.
TeardownStep ==
  /\ \/ pc \in {"lost", "zerr"}
     \/ pc \in {"d1", "d2", "d3", "d4"} /\ w.dret \in {"loop", "lock"}
  /\ pc' # pc

\* C38: a teardown of an established connection leaves failures unchanged,
\* every successful handshake sets failures to 0, and in a run where no
\* connectCaster has failed and stop() has not been called the state is
\* never LOCKED_OUT and failures stays 0.
C38_TeardownsNeverLockOut ==
  /\ [][TeardownStep => failures' = failures]_vars
  /\ [][pc = "ok1" /\ pc' = "ok2" => failures' = 0]_vars
  /\ []((~h.failedTry /\ ~h.stopCalled)
          => (_state # "LOCKED_OUT" /\ failures = 0))
\* After a teardown the next handshake has succeeded, in a run without a
\* failed handshake and without stop().
C38_Witness ==
  /\ h.tornDown >= 1 /\ pc = "ok2" /\ failures = 0
  /\ ~h.failedTry /\ ~h.stopCalled

\* The worker is in its exit tail, past the loop test that found _running
\* false.
InExitTail ==
  \/ pc \in {"xflush", "xend"}
  \/ pc \in {"d1", "d2", "d3", "d4"} /\ w.dret = "xend"

\* C39: the exit tail of a worker that found _running false ends with
\* _state = DISCONNECTED, _healthy false and protocolVersion 0, whatever
\* the state at the loop test was; the tail leaves failures and lastError as
\* they were at the loop test, and failures stays so, through a later
\* startTask(), until begin(), reset(), stop() or the outcome of the next
\* connectCaster writes it.
C39_ExitTailDisconnects ==
  /\ (pc = "xend" /\ opc = "idle")
       => (_state = "DISCONNECTED" /\ ~_healthy /\ _stats.protocolVersion = 0)
  /\ h.exit.left => failures = h.exit.failures
  /\ (h.exit.left /\ InExitTail /\ opc = "idle")
       => _stats.lastError = h.exit.lastError
\* A worker that left its loop in LOCKED_OUT has ended its tail, and the
\* task started after it is at its lockout test with the old count.
C39_Witness ==
  /\ h.exit.left /\ h.exit.state = "LOCKED_OUT" /\ h.startTask = "spawned"
  /\ pc = "lockchk" /\ _state = "DISCONNECTED"
  /\ failures = config.maxTries /\ _stats.lastError = "MAX_RETRIES_EXCEEDED"

\* The parser as reset() leaves it: Sync, with length, index and crc zero.
ParserAtRest(p) ==
  p.state = "SYNC" /\ p.length = 0 /\ p.index = 0 /\ p.crc = 0

\* C40: over any input, length is at most 1023; in the Crc stage index is
\* below 3 (the next write to crcBuf is inside it); feed() writes payloadBuf
\* only with index below 12; crc stays within 24 bits; no result has both
\* valid and crcError set; and after a result with valid or crcError set,
\* and after reset(), the parser is in Sync with length, index and crc zero.
C40_ParserInvariants ==
  /\ [](/\ w.parser.length <= 1023
        /\ w.parser.crc >= 0 /\ w.parser.crc < 16777216
        /\ w.parser.state = "CRC" => w.parser.index < 3
        /\ \A i \in 1..Len(h.results) :
             ~(h.results[i].r.valid /\ h.results[i].r.crcError))
  /\ [][(w.parser.state = "PAYLOAD" /\ w'.parser.payloadBuf # w.parser.payloadBuf)
          => w.parser.index < 12]_vars
  /\ [][(w.parser.state = "PAYLOAD" /\ w.parser.index >= 12)
          => w'.parser.payloadBuf = w.parser.payloadBuf]_vars
  /\ [][Len(h'.results) > Len(h.results) => ParserAtRest(w'.parser)]_vars
  /\ [][h'.parserResets # h.parserResets => ParserAtRest(w'.parser)]_vars
\* The frame with the 13-byte payload has just been accepted after leading
\* bytes, and the parser is back in Sync.
C40_Witness ==
  /\ h.offset > 0 /\ h.results # <<>>
  /\ h.results[Len(h.results)].at = h.fed
  /\ h.results[Len(h.results)].r.valid
  /\ h.results[Len(h.results)].r.length = 13
  /\ ParserAtRest(w.parser)

=============================================================================
